---- MODULE Spec2Model ----
(***************************************************************************)
(* ShortcutHelper (src/shortcut_helper.py): the shortcut registry merge,   *)
(* the modifier tracker fed by the keyboard listener, the GLib idle queue  *)
(* and the popup's prefix filter.                                          *)
(*                                                                         *)
(* Python str values are TLA+ strings, a Python dict is the sequence of    *)
(* its <<key, value>> items in insertion order, None is the empty          *)
(* sequence <<>> and an object that may be None is <<>> or <<object>>.     *)
(***************************************************************************)
EXTENDS Integers, Sequences, FiniteSets, TLC

(***************************************************************************)
(* Bounds of the model.                                                    *)
(***************************************************************************)
\* Callbacks that may wait in the GLib main context at one time.
MaxQueue == 2

(***************************************************************************)
(* Python str operations.                                                  *)
(***************************************************************************)
UpperCase == "ABCDEFGHIJKLMNOPQRSTUVWXYZ"
LowerCase == "abcdefghijklmnopqrstuvwxyz"
\* The characters of the modelled keys, in code point order.
CodePoints == " ()+0123456789ABCDEFGHIJKLMNOPQRSTUVWXYZ_abcdefghijklmnopqrstuvwxyz"

CharAt(s, i) == SubSeq(s, i, i)

\* Position of character c in string s, 0 when absent.
IndexOf(s, c) ==
    IF \E i \in 1..Len(s) : CharAt(s, i) = c
    THEN CHOOSE i \in 1..Len(s) : CharAt(s, i) = c
    ELSE 0

lower_char(c) ==
    IF IndexOf(UpperCase, c) = 0 THEN c ELSE CharAt(LowerCase, IndexOf(UpperCase, c))

\* str.lower()
RECURSIVE lower(_)
lower(s) ==
    IF Len(s) = 0 THEN "" ELSE lower_char(CharAt(s, 1)) \o lower(SubSeq(s, 2, Len(s)))

\* str.startswith(p)
startswith(s, p) == Len(p) <= Len(s) /\ SubSeq(s, 1, Len(p)) = p

\* sep.join(parts)
RECURSIVE join(_, _)
join(sep, parts) ==
    IF Len(parts) = 0 THEN ""
    ELSE IF Len(parts) = 1 THEN parts[1]
    ELSE parts[1] \o sep \o join(sep, Tail(parts))

\* a < b on str: code point order, a proper prefix first.
RECURSIVE str_less(_, _)
str_less(a, b) ==
    IF Len(b) = 0 THEN FALSE
    ELSE IF Len(a) = 0 THEN TRUE
    ELSE IF CharAt(a, 1) = CharAt(b, 1)
         THEN str_less(SubSeq(a, 2, Len(a)), SubSeq(b, 2, Len(b)))
         ELSE IndexOf(CodePoints, CharAt(a, 1)) < IndexOf(CodePoints, CharAt(b, 1))

(***************************************************************************)
(* Python dict operations on item sequences.                               *)
(***************************************************************************)
dict_keys(d) == { d[i][1] : i \in 1..Len(d) }

dict_has(d, k) == \E i \in 1..Len(d) : d[i][1] = k

\* d[k], for k in d
dict_get(d, k) == d[CHOOSE i \in 1..Len(d) : d[i][1] = k][2]

\* d[k] = v: an existing key keeps its position, a new key goes last.
dict_set(d, k, v) ==
    IF dict_has(d, k)
    THEN [i \in 1..Len(d) |-> IF d[i][1] = k THEN <<k, v>> ELSE d[i]]
    ELSE Append(d, <<k, v>>)

\* {**a, **b}
RECURSIVE dict_update(_, _)
dict_update(a, b) ==
    IF Len(b) = 0 THEN a ELSE dict_update(dict_set(a, b[1][1], b[1][2]), Tail(b))

\* list.sort(key=lambda x: x[0].lower()): stable, equal keys keep their order.
RECURSIVE sort_insert(_, _)
sort_insert(sorted, item) ==
    IF Len(sorted) = 0 THEN <<item>>
    ELSE IF str_less(lower(item[1]), lower(sorted[Len(sorted)][1]))
         THEN Append(sort_insert(SubSeq(sorted, 1, Len(sorted) - 1), item),
                     sorted[Len(sorted)])
         ELSE Append(sorted, item)

RECURSIVE sort_items(_)
sort_items(items) ==
    IF Len(items) = 0 THEN <<>>
    ELSE sort_insert(sort_items(SubSeq(items, 1, Len(items) - 1)), items[Len(items)])

(***************************************************************************)
(* The configuration (config.json after load_config) and the registry.     *)
(***************************************************************************)
\* config.get(name, default)
config_get(cfg, name, default) == IF name \in DOMAIN cfg THEN cfg[name] ELSE default

\* config.get('configured_shortcuts', config.get('shortcuts', {}))
configured_of(cfg) ==
    config_get(cfg, "configured_shortcuts", config_get(cfg, "shortcuts", <<>>))

\* A faulty variant of get_all_shortcuts: {**configured, **imported}, the
\* imported description winning.
get_all_shortcuts_imported_wins(cfg) ==
    dict_update(configured_of(cfg), config_get(cfg, "imported_shortcuts", <<>>))

\* KeymapHelper.get_all_shortcuts: {**imported, **configured}
get_all_shortcuts(cfg) ==
    dict_update(config_get(cfg, "imported_shortcuts", <<>>), configured_of(cfg))

(***************************************************************************)
(* KeymapPopup.                                                            *)
(***************************************************************************)
NoKeys == [ctrl |-> FALSE, super |-> FALSE, alt |-> FALSE, shift |-> FALSE]

\* KeymapPopup.__init__: no window, no timer, filtered_shortcuts a copy of
\* shortcuts.  window is "None", "hidden" or "shown"; title_label is "None"
\* or its markup; shortcuts_box is <<>> (None) or <<rows>>.  pressed_keys is
\* no field of the object: it records the argument of the last call of
\* filter_shortcuts, <<>> before the first one.
KeymapPopup(shortcuts, key_aliases, configured_shortcuts, imported_shortcuts) ==
    [shortcuts |-> shortcuts,
     key_aliases |-> key_aliases,
     configured_shortcuts |-> configured_shortcuts,
     imported_shortcuts |-> imported_shortcuts,
     window |-> "None",
     timeout_id |-> FALSE,
     filtered_shortcuts |-> shortcuts,
     title_label |-> "None",
     shortcuts_box |-> <<>>,
     current_modifiers |-> NoKeys,
     pressed_keys |-> <<>>]

BaseTitle == "<b>Available Shortcuts</b>"

\* create_window: builds the title label and the empty list box; its last
\* call, position_window, does window.show_all().
create_window(p) ==
    [p EXCEPT !.window = "shown", !.title_label = BaseTitle, !.shortcuts_box = << <<>> >>]

\* The names appended for the held keys, in the order Ctrl, Super, Alt, Shift.
held_parts(pressed_keys, names) ==
    (IF pressed_keys.ctrl THEN <<names[1]>> ELSE <<>>)
    \o (IF pressed_keys.super THEN <<names[2]>> ELSE <<>>)
    \o (IF pressed_keys.alt THEN <<names[3]>> ELSE <<>>)
    \o (IF pressed_keys.shift THEN <<names[4]>> ELSE <<>>)

\* update_title_from_keys
title_markup(pressed_keys) ==
    LET modifiers_parts == held_parts(pressed_keys, <<"CTRL", "SUPER", "ALT", "SHIFT">>)
    IN IF modifiers_parts # <<>>
       THEN "<b>Available Shortcuts (" \o join(" + ", modifiers_parts) \o " + ...)</b>"
       ELSE BaseTitle

update_title_from_keys(p, pressed_keys) ==
    IF p.title_label = "None" THEN p
    ELSE [p EXCEPT !.title_label = title_markup(pressed_keys)]

\* A faulty variant of prefix_parts: Shift adds nothing to the prefix.
prefix_parts_without_shift(pressed_keys) ==
    held_parts([pressed_keys EXCEPT !.shift = FALSE], <<"Ctrl", "Super", "Alt", "Shift">>)

\* filter_shortcuts, lines 212-220
prefix_parts(pressed_keys) == held_parts(pressed_keys, <<"Ctrl", "Super", "Alt", "Shift">>)

\* filter_shortcuts, lines 230-231
search_prefix_lower(pressed_keys) == lower(join("+", prefix_parts(pressed_keys)) \o "+")

\* A faulty variant of key_matches: the key is not lowered before the test.
key_matches_case_sensitive(key, prefix_lower) == startswith(key, prefix_lower)

\* filter_shortcuts, the test of line 245 (and of line 253)
key_matches(key, prefix_lower) == startswith(lower(key), prefix_lower)

\* filter_shortcuts, lines 241-246: the entries of shortcuts whose key matches.
RECURSIVE select_shortcuts(_, _)
select_shortcuts(shortcuts, prefix_lower) ==
    IF Len(shortcuts) = 0 THEN <<>>
    ELSE LET rest == select_shortcuts(SubSeq(shortcuts, 1, Len(shortcuts) - 1), prefix_lower)
             item == shortcuts[Len(shortcuts)]
         IN IF key_matches(item[1], prefix_lower)
            THEN dict_set(rest, item[1], item[2]) ELSE rest

\* A faulty variant of alias_entry: the alias gets the description of the
\* target without the annotation.
alias_entry_unannotated(filtered, shortcuts, alias_key, mapped_key) ==
    IF dict_has(shortcuts, mapped_key)
    THEN dict_set(filtered, alias_key, dict_get(shortcuts, mapped_key))
    ELSE filtered

\* filter_shortcuts, lines 255-258: the entry made for one matching alias.
alias_entry(filtered, shortcuts, alias_key, mapped_key) ==
    IF dict_has(shortcuts, mapped_key)
    THEN dict_set(filtered, alias_key,
                  dict_get(shortcuts, mapped_key) \o " (via " \o mapped_key \o ")")
    ELSE filtered

\* filter_shortcuts, lines 249-258
RECURSIVE add_aliases(_, _, _, _)
add_aliases(filtered, key_aliases, shortcuts, prefix_lower) ==
    IF Len(key_aliases) = 0 THEN filtered
    ELSE LET alias_key == key_aliases[1][1]
             mapped_key == key_aliases[1][2]
             next == IF key_matches(alias_key, prefix_lower)
                     THEN alias_entry(filtered, shortcuts, alias_key, mapped_key)
                     ELSE filtered
         IN add_aliases(next, Tail(key_aliases), shortcuts, prefix_lower)

\* The dict filter_shortcuts stores in self.filtered_shortcuts.
filtered_for(shortcuts, pressed_keys, key_aliases) ==
    IF prefix_parts(pressed_keys) = <<>> THEN <<>>
    ELSE add_aliases(select_shortcuts(shortcuts, search_prefix_lower(pressed_keys)),
                     key_aliases, shortcuts, search_prefix_lower(pressed_keys))

Separator == [kind |-> "separator", key |-> "", description |-> ""]

Row(item) == [kind |-> "row", key |-> item[1], description |-> item[2]]

\* A faulty variant of is_user_item: the test is made without regard to case.
is_user_item_any_case(key, configured_shortcuts) ==
    \E i \in 1..Len(configured_shortcuts) : lower(configured_shortcuts[i][1]) = lower(key)

\* update_shortcuts_list_from_keys, line 280: the group of one filtered entry.
is_user_item(key, configured_shortcuts) == dict_has(configured_shortcuts, key)

\* update_shortcuts_list_from_keys, lines 277-287: one sorted group.
group_items(filtered, configured_shortcuts, user) ==
    sort_items(SelectSeq(filtered,
        LAMBDA item : is_user_item(item[1], configured_shortcuts) = user))

\* update_shortcuts_list_from_keys, lines 289-398: the rows packed in the box
\* (the key label's markup is left out: a row keeps its key and description).
list_rows(filtered, configured_shortcuts) ==
    LET user_items == group_items(filtered, configured_shortcuts, TRUE)
        imported_items == group_items(filtered, configured_shortcuts, FALSE)
    IN [i \in 1..Len(user_items) |-> Row(user_items[i])]
       \o (IF imported_items # <<>> /\ user_items # <<>> THEN <<Separator>> ELSE <<>>)
       \o [i \in 1..Len(imported_items) |-> Row(imported_items[i])]

update_shortcuts_list_from_keys(p) ==
    IF p.shortcuts_box = <<>> THEN p
    ELSE [p EXCEPT !.shortcuts_box = <<list_rows(p.filtered_shortcuts, p.configured_shortcuts)>>]

\* A faulty variant of filter_shortcuts: filtered starts as the result of the
\* call before, not as {}.
filter_shortcuts_accumulating(p, pressed_keys, key_aliases) ==
    LET stored == [p EXCEPT
            !.pressed_keys = <<pressed_keys>>,
            !.filtered_shortcuts =
                IF prefix_parts(pressed_keys) = <<>> THEN <<>>
                ELSE dict_update(@, filtered_for(p.shortcuts, pressed_keys, key_aliases)),
            !.current_modifiers = IF prefix_parts(pressed_keys) = <<>> THEN @ ELSE pressed_keys]
    IN update_shortcuts_list_from_keys(update_title_from_keys(stored, pressed_keys))

\* KeymapPopup.filter_shortcuts
filter_shortcuts(p, pressed_keys, key_aliases) ==
    LET stored == [p EXCEPT
            !.pressed_keys = <<pressed_keys>>,
            !.filtered_shortcuts = filtered_for(p.shortcuts, pressed_keys, key_aliases),
            !.current_modifiers = IF prefix_parts(pressed_keys) = <<>> THEN @ ELSE pressed_keys]
    IN update_shortcuts_list_from_keys(update_title_from_keys(stored, pressed_keys))

\* KeymapPopup.show (pressed_keys is never None at its call site)
popup_show(p, use_timeout, pressed_keys) ==
    LET made == IF p.window = "None" THEN create_window(p) ELSE p
        filtered == filter_shortcuts(made, pressed_keys, made.key_aliases)
    IN [filtered EXCEPT !.window = "shown", !.timeout_id = use_timeout]

\* KeymapPopup.hide
popup_hide(p) ==
    [p EXCEPT !.window = IF @ = "None" THEN @ ELSE "hidden", !.timeout_id = FALSE]

(***************************************************************************)
(* The hide timer of KeymapPopup.show and KeymapPopup.hide.  A timer is    *)
(* [timeout_id, pending, last]: self.timeout_id, <<>> for None or <<id>>;  *)
(* the ids of the timeout sources GLib has pending; the id GLib.timeout_add *)
(* returned last, ids being handed out in order from 1.                    *)
(***************************************************************************)
\* KeymapPopup.__init__, line 41, in a main context without timeout sources.
NoTimer == [timeout_id |-> <<>>, pending |-> {}, last |-> 0]

\* GLib.source_remove(id)
source_remove(t, id) == [t EXCEPT !.pending = @ \ {id}]

\* self.timeout_id = GLib.timeout_add(timeout_ms, self.hide)
timeout_add(t) ==
    [t EXCEPT !.last = @ + 1, !.pending = @ \cup {t.last + 1}, !.timeout_id = <<t.last + 1>>]

\* show, lines 157-159, and hide, lines 173-175
cancel_timeout(t) ==
    IF t.timeout_id # <<>>
    THEN [source_remove(t, t.timeout_id[1]) EXCEPT !.timeout_id = <<>>]
    ELSE t

\* A faulty variant of show_timeout: the timer of an earlier show is left.
show_timeout_keeps(t, use_timeout) == IF use_timeout THEN timeout_add(t) ELSE t

\* KeymapPopup.show, lines 156-167
show_timeout(t, use_timeout) ==
    IF use_timeout THEN timeout_add(cancel_timeout(t)) ELSE cancel_timeout(t)

\* KeymapPopup.hide, lines 173-176
hide_timeout(t) == cancel_timeout(t)

\* The timeout source id is due: GLib calls self.hide, which returns False,
\* and GLib destroys the source.
timeout_expires(t, id) == source_remove(hide_timeout(t), id)

(***************************************************************************)
(* SystemKeymapImporter.parse_keybinding.                                  *)
(***************************************************************************)
upper_char(c) ==
    IF IndexOf(LowerCase, c) = 0 THEN c ELSE CharAt(UpperCase, IndexOf(LowerCase, c))

\* str.upper()
RECURSIVE upper(_)
upper(s) ==
    IF Len(s) = 0 THEN "" ELSE upper_char(CharAt(s, 1)) \o upper(SubSeq(s, 2, Len(s)))

\* str.capitalize(): the first character upper case, the others lower case.
capitalize(s) ==
    IF Len(s) = 0 THEN "" ELSE upper_char(CharAt(s, 1)) \o lower(SubSeq(s, 2, Len(s)))

\* The white space str.strip() removes, of the characters modelled.
Whitespace == {" ", "\t"}

\* str.strip()
RECURSIVE strip(_)
strip(s) ==
    IF Len(s) = 0 THEN ""
    ELSE IF CharAt(s, 1) \in Whitespace THEN strip(SubSeq(s, 2, Len(s)))
    ELSE IF CharAt(s, Len(s)) \in Whitespace THEN strip(SubSeq(s, 1, Len(s) - 1))
    ELSE s

\* str.replace(c, ''), c one character
RECURSIVE remove_char(_, _)
remove_char(s, c) ==
    IF Len(s) = 0 THEN ""
    ELSE (IF CharAt(s, 1) = c THEN "" ELSE CharAt(s, 1))
            \o remove_char(SubSeq(s, 2, Len(s)), c)

\* sub in s
contains(s, sub) ==
    \E i \in 1..(Len(s) - Len(sub) + 1) : SubSeq(s, i, i + Len(sub) - 1) = sub

\* The position of the first '>' of s at or after i, 0 when there is none.
next_close(s, i) ==
    IF \E j \in i..Len(s) : CharAt(s, j) = ">"
    THEN CHOOSE j \in i..Len(s) :
            CharAt(s, j) = ">" /\ \A k \in i..(j - 1) : CharAt(s, k) # ">"
    ELSE 0

\* Whether the pattern <[^>]+> matches s at position i: a '<', one character
\* or more other than '>', and a '>'.
tag_at(s, i) == CharAt(s, i) = "<" /\ next_close(s, i + 1) > i + 1

\* re.findall(r'<([^>]+)>', s), the scan being at position i
RECURSIVE findall_tags(_, _)
findall_tags(s, i) ==
    IF i > Len(s) THEN <<>>
    ELSE IF tag_at(s, i)
         THEN <<SubSeq(s, i + 1, next_close(s, i + 1) - 1)>>
                 \o findall_tags(s, next_close(s, i + 1) + 1)
         ELSE findall_tags(s, i + 1)

\* re.sub(r'<[^>]+>', '', s), the scan being at position i
RECURSIVE sub_tags(_, _)
sub_tags(s, i) ==
    IF i > Len(s) THEN ""
    ELSE IF tag_at(s, i) THEN sub_tags(s, next_close(s, i + 1) + 1)
    ELSE CharAt(s, i) \o sub_tags(s, i + 1)

\* parse_keybinding, lines 421-425: the state of the loop before the first tag.
NoTags == [modifiers |-> <<>>, key |-> <<>>, has_control |-> FALSE, has_super |-> FALSE]

\* parse_keybinding, lines 430-446: one round of the loop over the tags.
scan_tag(st, match) ==
    IF lower(match) \in {"control", "ctrl", "primary"} THEN [st EXCEPT !.has_control = TRUE]
    ELSE IF lower(match) \in {"super", "mod4", "mod5"} THEN [st EXCEPT !.has_super = TRUE]
    ELSE IF lower(match) = "shift" THEN [st EXCEPT !.modifiers = Append(@, "Shift")]
    ELSE IF lower(match) = "alt" THEN [st EXCEPT !.modifiers = Append(@, "Alt")]
    ELSE [st EXCEPT !.key = <<match>>]

RECURSIVE scan_tags(_, _)
scan_tags(st, matches) ==
    IF Len(matches) = 0 THEN st ELSE scan_tags(scan_tag(st, matches[1]), Tail(matches))

\* A faulty variant of remaining_key: what is left is the key as soon as it
\* is more than white space, a '+' alone too.
remaining_key_keeps_plus(binding) ==
    LET remaining == strip(sub_tags(binding, 1))
    IN IF remaining # "" THEN <<remaining>> ELSE <<>>

\* parse_keybinding, lines 449-456: the key from what is left of the binding
\* with the tags taken out, None when nothing is left.
remaining_key(binding) ==
    LET remaining == strip(sub_tags(binding, 1))
    IN IF remaining # "" /\ strip(remove_char(remaining, "+")) # ""
       THEN <<strip(remove_char(remaining, "+"))>>
       ELSE <<>>

\* parse_keybinding, lines 465-481
key_map ==
    << <<"return", "Enter">>, <<"space", "Space">>, <<"backspace", "Backspace">>,
       <<"delete", "Delete">>, <<"escape", "Esc">>, <<"tab", "Tab">>,
       <<"home", "Home">>, <<"end", "End">>, <<"page_up", "PageUp">>,
       <<"page_down", "PageDown">>, <<"up", "Up">>, <<"down", "Down">>,
       <<"left", "Left">>, <<"right", "Right">>,
       <<"f1", "F1">>, <<"f2", "F2">>, <<"f3", "F3">>, <<"f4", "F4">>,
       <<"f5", "F5">>, <<"f6", "F6">>, <<"f7", "F7">>, <<"f8", "F8">>,
       <<"f9", "F9">>, <<"f10", "F10">>, <<"f11", "F11">>, <<"f12", "F12">> >>

\* A faulty variant of normalize_key: the table is looked up with the key as
\* written.
normalize_key_as_written(key) ==
    IF dict_has(key_map, key) THEN dict_get(key_map, key)
    ELSE IF Len(key) = 1 THEN upper(key) ELSE capitalize(key)

\* parse_keybinding, lines 463 and 484
normalize_key(key) ==
    IF dict_has(key_map, lower(key)) THEN dict_get(key_map, lower(key))
    ELSE IF Len(key) = 1 THEN upper(key) ELSE capitalize(key)

\* A faulty variant of assemble: Control is written as a prefix, as Super is.
assemble_writes_control(st, key) ==
    LET base_prefix == IF st.has_super THEN "Super+"
                       ELSE IF st.has_control THEN "Ctrl+" ELSE ""
        key_with_modifiers ==
            IF st.modifiers # <<>>
            THEN join("+", st.modifiers) \o "+" \o normalize_key(key)
            ELSE normalize_key(key)
    IN IF base_prefix # "" THEN base_prefix \o key_with_modifiers ELSE key_with_modifiers

\* parse_keybinding, lines 486-504: the normalized key from the loop's state
\* and the final key.
assemble(st, key) ==
    LET base_prefix == IF st.has_super THEN "Super+" ELSE ""
        key_with_modifiers ==
            IF st.modifiers # <<>>
            THEN join("+", st.modifiers) \o "+" \o normalize_key(key)
            ELSE normalize_key(key)
    IN IF base_prefix # "" THEN base_prefix \o key_with_modifiers ELSE key_with_modifiers

\* SystemKeymapImporter.parse_keybinding: None is <<>>, a str s is <<s>>.
parse_keybinding(binding) ==
    IF binding = "" \/ binding = "[]" THEN <<>>
    ELSE LET st == scan_tags(NoTags, findall_tags(binding, 1))
             key == IF st.key # <<>> THEN st.key ELSE remaining_key(binding)
         IN IF key = <<>> THEN <<>> ELSE <<assemble(st, key[1])>>

(***************************************************************************)
(* SystemKeymapImporter.get_system_shortcuts.  A GSettings value is a      *)
(* record [type, val] with the type string of the variant; a schema is a   *)
(* record [status, records]: records are the <<key, value>> items of the   *)
(* schema and status says what the schema lets the importer do:            *)
(*   "ok"          Gio.Settings.new and get_all() return;                  *)
(*   "no_get_all"  get_all() raises, list_keys() and get_value() return;   *)
(*   "unreadable"  get_all() and list_keys() raise;                        *)
(*   "no_schema"   Gio.Settings.new raises.                                *)
(***************************************************************************)
\* str.replace(c, d), c and d one character each
RECURSIVE replace_char(_, _, _)
replace_char(s, c, d) ==
    IF Len(s) = 0 THEN ""
    ELSE (IF CharAt(s, 1) = c THEN d ELSE CharAt(s, 1))
            \o replace_char(SubSeq(s, 2, Len(s)), c, d)

is_cased(c) == IndexOf(UpperCase, c) # 0 \/ IndexOf(LowerCase, c) # 0

\* str.title() from position i on: a letter after a letter is lower case, a
\* letter after anything else is upper case.
RECURSIVE title_from(_, _)
title_from(s, i) ==
    IF i > Len(s) THEN ""
    ELSE (IF i > 1 /\ is_cased(CharAt(s, i - 1))
          THEN lower_char(CharAt(s, i))
          ELSE upper_char(CharAt(s, i))) \o title_from(s, i + 1)

\* str.title()
title(s) == title_from(s, 1)

\* SystemKeymapImporter.get_binding_values: None is <<>>.
get_binding_values(value) ==
    IF value = <<>> THEN <<>>
    ELSE IF value.type = "s" THEN <<value.val>>
    ELSE IF value.type = "as" THEN value.val
    ELSE <<>>

\* get_system_shortcuts, lines 555-558: the binding names Control or Super.
has_ctrl_or_super(binding) ==
    LET binding_lower == lower(binding)
    IN \E marker \in {"control", "ctrl", "primary", "super", "mod4", "mod5"} :
          contains(binding_lower, marker)

\* get_system_shortcuts, lines 553-564: the loop over the bindings of a key.
RECURSIVE add_bindings(_, _, _)
add_bindings(shortcuts, key, bindings) ==
    IF Len(bindings) = 0 THEN shortcuts
    ELSE LET parsed_key == IF has_ctrl_or_super(bindings[1])
                           THEN parse_keybinding(bindings[1]) ELSE <<>>
             desc == title(replace_char(replace_char(key, "_", " "), "-", " "))
         IN add_bindings(IF parsed_key # <<>>
                         THEN dict_set(shortcuts, parsed_key[1], desc)
                         ELSE shortcuts,
                         key, Tail(bindings))

\* get_system_shortcuts, lines 551-564: the loop over the items of a schema.
RECURSIVE read_records(_, _)
read_records(shortcuts, records) ==
    IF Len(records) = 0 THEN shortcuts
    ELSE read_records(add_bindings(shortcuts, records[1][1],
                                   get_binding_values(records[1][2])),
                      Tail(records))

\* get_system_shortcuts, lines 548-589 (596-631, 640-675): the schema is
\* open; get_all(), and list_keys() when get_all() raises.
read_schema(shortcuts, schema) ==
    IF schema.status \in {"ok", "no_get_all"}
    THEN read_records(shortcuts, schema.records)
    ELSE shortcuts

\* get_system_shortcuts, lines 545-589: the window manager block, which
\* opens its schema under the try of line 543 alone; raised says that
\* Gio.Settings.new raised.
read_window_manager(shortcuts, schema) ==
    IF schema.status = "no_schema"
    THEN [shortcuts |-> shortcuts, raised |-> TRUE]
    ELSE [shortcuts |-> read_schema(shortcuts, schema), raised |-> FALSE]

\* get_system_shortcuts, lines 593-633 (637-677): the media keys block and
\* the shell block, each under a try of its own.
read_guarded(shortcuts, schema) ==
    IF schema.status = "no_schema" THEN shortcuts ELSE read_schema(shortcuts, schema)

\* The default of import_sources (lines 537-541, 727-731).
AllSources ==
    ("window_manager" :> TRUE) @@ ("media_keys" :> TRUE) @@ ("shell" :> TRUE)

\* SystemKeymapImporter.get_system_shortcuts, sys the schemas of the desktop.
get_system_shortcuts(import_sources, sys) ==
    LET wm == IF config_get(import_sources, "window_manager", TRUE)
              THEN read_window_manager(<<>>, sys["window_manager"])
              ELSE [shortcuts |-> <<>>, raised |-> FALSE]
        media == IF config_get(import_sources, "media_keys", TRUE)
                 THEN read_guarded(wm.shortcuts, sys["media_keys"])
                 ELSE wm.shortcuts
        shell == IF config_get(import_sources, "shell", TRUE)
                 THEN read_guarded(media, sys["shell"])
                 ELSE media
    IN IF wm.raised THEN wm.shortcuts ELSE shell

(***************************************************************************)
(* The configurations the model starts from.                               *)
(***************************************************************************)
ImportedChoices ==
    { << <<"Insert", "Paste">>, <<"Shift+Delete", "Cut Selection">>,
         <<"Super+L", "Lock Screen">>, <<"Ctrl+C", "Copy To Clipboard">>,
         <<"Super+Shift+Left", "Move Window Left">> >>,
      << <<"ctrl+b", "Bold">>, <<"Ctrl+a", "Select All">>, <<"CTRL+A", "Select">>,
         <<"Alt+Tab", "Switch Windows">> >> }

ConfiguredChoices ==
    { << <<"Ctrl+C", "Copy">>, <<"ctrl+shift+t", "Reopen Tab">>, <<"Insert", "Cut">> >>,
      << <<"Ctrl+Z", "Undo">>, <<"Ctrl+a", "All">>, <<"Ctrl", "Bare">> >> }

AliasChoices ==
    { << <<"Shift+Delete", "Insert">>, <<"Ctrl+Ins", "Missing">>, <<"Ctrl+C", "Ctrl+Z">> >>,
      <<>> }

\* The name the configured shortcuts are stored under: the current one or
\* the old one (line 765).
ConfiguredNames == {"configured_shortcuts", "shortcuts"}

Configs ==
    { ("imported_shortcuts" :> i) @@ (n :> c) @@ ("key_aliases" :> a) :
        <<i, c, a, n>> \in ImportedChoices \X ConfiguredChoices \X AliasChoices \X ConfiguredNames }
    \cup { ("key_aliases" :> a) : a \in AliasChoices }

(***************************************************************************)
(* The keys the listener reports.                                          *)
(***************************************************************************)
\* keyboard.Key members, two KeyCode objects with the vk of Super on X11,
\* and two keys that are no modifier: a Key member, which has no vk, and a
\* KeyCode of another vk.
Keys == {"ctrl_l", "ctrl_r", "cmd", "cmd_r", "shift_l", "shift_r", "alt_l", "alt_r",
         "vk133", "vk134", "other", "vk38"}

is_ctrl(key) == key \in {"ctrl_l", "ctrl_r"}
is_cmd(key) == key \in {"cmd", "cmd_r"}
is_shift(key) == key \in {"shift_l", "shift_r"}
is_alt(key) == key \in {"alt_l", "alt_r"}
\* hasattr(key, 'vk') and (key.vk == 133 or key.vk == 134)
is_super_vk(key) == key \in {"vk133", "vk134"}

\* GLib.PRIORITY_DEFAULT_IDLE, the priority of GLib.idle_add(f)
PRIORITY_DEFAULT_IDLE == 200
\* GLib.PRIORITY_HIGH
PRIORITY_HIGH == -100

(***************************************************************************)
(* KeymapHelper.                                                           *)
(***************************************************************************)
VARIABLES
    config,         \* self.config
    ctrl_pressed,   \* self.ctrl_pressed
    shift_pressed,  \* self.shift_pressed
    alt_pressed,    \* self.alt_pressed
    super_pressed,  \* self.super_pressed
    popup,          \* self.popup: <<>> or <<the KeymapPopup>>
    listener,       \* TRUE once start() has started the keyboard listener
    idle,           \* the callbacks waiting in the GLib main context
    disk,           \* config.json, as json.load would read it
    system,         \* the GSettings schemas get_system_shortcuts reads
    last_import,    \* <<>>, or <<old_imported and system_shortcuts of the last import>>
    binding,        \* the raw binding given to parse_keybinding
    parsed,         \* <<>>, or <<what parse_keybinding(binding) returned>>
    timer,          \* the popup's timeout_id and the timeout sources of GLib
    reader          \* the callback the main loop is in, the flags it has read

vars == <<config, ctrl_pressed, shift_pressed, alt_pressed, super_pressed, popup,
          listener, idle, disk, system, last_import, binding, parsed, timer, reader>>

\* What KeymapHelper.__init__ and the importer work on.
importer_vars == <<disk, system, last_import, binding, parsed>>

\* The helper's fields the handlers read and write.
Self ==
    [ctrl_pressed |-> ctrl_pressed, shift_pressed |-> shift_pressed,
     alt_pressed |-> alt_pressed, super_pressed |-> super_pressed,
     popup |-> popup, idle |-> idle]

\* GLib.idle_add(fn, priority=priority)
idle_add(h, fn, priority) ==
    [h EXCEPT !.idle = Append(@, [fn |-> fn, priority |-> priority])]

\* A faulty variant of press_modifier: the flag is not tested, every press
\* enqueues show_popup.
press_modifier_unguarded(h, held, pressed) ==
    idle_add(pressed, "show_popup", PRIORITY_DEFAULT_IDLE)

\* on_press, lines 774-777 (780-783, 798-801 and 809-811 alike): a press of
\* ctrl, super or alt; held is the flag before, pressed is h with the flag set.
press_modifier(h, held, pressed) ==
    IF ~held THEN idle_add(pressed, "show_popup", PRIORITY_DEFAULT_IDLE) ELSE h

\* A faulty variant of press_shift: the test of self.popup is inverted, so a
\* press of shift with the popup constructed enqueues show_popup.
press_shift_shows(h) ==
    IF ~h.shift_pressed
    THEN LET s == [h EXCEPT !.shift_pressed = TRUE]
         IN IF s.ctrl_pressed \/ s.super_pressed \/ s.alt_pressed
            THEN IF s.popup = <<>>
                 THEN idle_add(s, "update_filter", PRIORITY_HIGH)
                 ELSE idle_add(s, "show_popup", PRIORITY_DEFAULT_IDLE)
            ELSE s
    ELSE h

\* A faulty variant of press_shift: the flag is set and nothing is enqueued.
press_shift_silent(h) ==
    IF ~h.shift_pressed THEN [h EXCEPT !.shift_pressed = TRUE] ELSE h

\* on_press, lines 788-795: a press of shift.
press_shift(h) ==
    IF ~h.shift_pressed
    THEN LET s == [h EXCEPT !.shift_pressed = TRUE]
         IN IF s.ctrl_pressed \/ s.super_pressed \/ s.alt_pressed
            THEN IF s.popup # <<>>
                 THEN idle_add(s, "update_filter", PRIORITY_HIGH)
                 ELSE idle_add(s, "show_popup", PRIORITY_DEFAULT_IDLE)
            ELSE s
    ELSE h

\* on_press, lines 771-803
on_press_key(h, key) ==
    IF is_ctrl(key) THEN press_modifier(h, h.ctrl_pressed, [h EXCEPT !.ctrl_pressed = TRUE])
    ELSE IF is_cmd(key) THEN press_modifier(h, h.super_pressed, [h EXCEPT !.super_pressed = TRUE])
    ELSE IF is_shift(key) THEN press_shift(h)
    ELSE IF is_alt(key) THEN press_modifier(h, h.alt_pressed, [h EXCEPT !.alt_pressed = TRUE])
    ELSE h

\* A faulty variant of on_press_vk: every key that has a vk counts as Super.
on_press_vk_any(h, key) ==
    IF key \in {"vk133", "vk134", "vk38"}
    THEN press_modifier(h, h.super_pressed, [h EXCEPT !.super_pressed = TRUE])
    ELSE h

\* on_press, lines 806-813
on_press_vk(h, key) ==
    IF is_super_vk(key)
    THEN press_modifier(h, h.super_pressed, [h EXCEPT !.super_pressed = TRUE])
    ELSE h

\* KeymapHelper.on_press
on_press(h, key) == on_press_vk(on_press_key(h, key), key)

\* A faulty variant of after_release: the overlay is hidden at every release.
after_release_always_hides(s, others_pressed) ==
    idle_add(s, "hide_popup", PRIORITY_DEFAULT_IDLE)

\* A faulty variant of after_release: the overlay is refreshed, never hidden.
after_release_never_hides(s, others_pressed) ==
    IF s.popup # <<>> THEN idle_add(s, "update_filter", PRIORITY_DEFAULT_IDLE) ELSE s

\* on_release: what follows the clearing of a flag, others being the two
\* other flags among ctrl, super, alt (lines 820-823, and alike).
after_release(s, others_pressed) ==
    IF ~others_pressed THEN idle_add(s, "hide_popup", PRIORITY_DEFAULT_IDLE)
    ELSE IF s.popup # <<>> THEN idle_add(s, "update_filter", PRIORITY_DEFAULT_IDLE)
    ELSE s

\* A faulty variant of release_ctrl: the flag counts the held variants, so
\* the release of one of two leaves it set.
release_ctrl_keeps_flag(h) ==
    after_release(h, h.super_pressed \/ h.alt_pressed)

\* on_release, lines 818-823: a release of ctrl.
release_ctrl(h) ==
    after_release([h EXCEPT !.ctrl_pressed = FALSE], h.super_pressed \/ h.alt_pressed)

\* on_release, lines 824-829 (and 846-851): a release of super.
release_super(h) ==
    after_release([h EXCEPT !.super_pressed = FALSE], h.ctrl_pressed \/ h.alt_pressed)

\* A faulty variant of release_shift: the flag is cleared and nothing is
\* enqueued.
release_shift_silent(h) == [h EXCEPT !.shift_pressed = FALSE]

\* on_release, lines 830-833: a release of shift.
release_shift(h) ==
    LET s == [h EXCEPT !.shift_pressed = FALSE]
    IN IF (s.ctrl_pressed \/ s.super_pressed \/ s.alt_pressed) /\ s.popup # <<>>
       THEN idle_add(s, "update_filter", PRIORITY_DEFAULT_IDLE)
       ELSE s

\* A faulty variant of release_alt: a release with the flag clear does nothing.
release_alt_guarded(h) ==
    IF h.alt_pressed
    THEN after_release([h EXCEPT !.alt_pressed = FALSE], h.ctrl_pressed \/ h.super_pressed)
    ELSE h

\* on_release, lines 834-839: a release of alt.
release_alt(h) ==
    after_release([h EXCEPT !.alt_pressed = FALSE], h.ctrl_pressed \/ h.super_pressed)

\* on_release, lines 817-841
on_release_key(h, key) ==
    IF is_ctrl(key) THEN release_ctrl(h)
    ELSE IF is_cmd(key) THEN release_super(h)
    ELSE IF is_shift(key) THEN release_shift(h)
    ELSE IF is_alt(key) THEN release_alt(h)
    ELSE h

\* on_release, lines 844-853
on_release_vk(h, key) == IF is_super_vk(key) THEN release_super(h) ELSE h

\* KeymapHelper.on_release
on_release(h, key) == on_release_vk(on_release_key(h, key), key)

(***************************************************************************)
(* The desktops and the import_sources of the model.                       *)
(***************************************************************************)
\* Values of GSettings keys: an array of strings, a string, another type.
Strv(bindings) == [type |-> "as", val |-> bindings]

WindowManagerRecords ==
    << <<"switch-windows", Strv(<<"<Alt>Tab">>)>>,
       <<"close", Strv(<<"<Super>q", "<Control><Alt>w">>)>> >>

MediaKeysRecords ==
    << <<"screensaver", Strv(<<"<Super>l">>)>>,
       <<"volume-up", [type |-> "s", val |-> "XF86AudioRaiseVolume"]>>,
       <<"max-length", [type |-> "u", val |-> "30"]>> >>

ShellRecords ==
    << <<"toggle_overview", Strv(<<"<Super>s">>)>>,
       <<"open-menu", Strv(<<>>)>> >>

Statuses == {"ok", "no_get_all", "unreadable", "no_schema"}

Sources == {"window_manager", "media_keys", "shell"}

\* The desktop whose schemas are in the conditions w, m and s.
Desktop(w, m, s) ==
    ("window_manager" :> [status |-> w, records |-> WindowManagerRecords])
        @@ ("media_keys" :> [status |-> m, records |-> MediaKeysRecords])
        @@ ("shell" :> [status |-> s, records |-> ShellRecords])

\* The desktops: every schema in order, one schema that cannot be opened
\* or cannot be read while the others are in order, and no schema to be had.
Systems ==
    { Desktop("ok", "ok", "ok"), Desktop("no_get_all", "ok", "no_get_all"),
      Desktop("no_schema", "ok", "ok"), Desktop("unreadable", "ok", "ok"),
      Desktop("ok", "no_schema", "ok"), Desktop("ok", "unreadable", "ok"),
      Desktop("ok", "ok", "no_schema"), Desktop("ok", "ok", "unreadable"),
      Desktop("no_schema", "no_schema", "no_schema") }

\* import_sources of config.json: absent, or some of the flags.
SourcesChoices ==
    { ("window_manager" :> FALSE) @@ ("media_keys" :> TRUE) @@ ("shell" :> TRUE),
      ("window_manager" :> TRUE) @@ ("media_keys" :> FALSE),
      ("window_manager" :> FALSE) @@ ("media_keys" :> FALSE) @@ ("shell" :> FALSE) }

\* A faulty variant of import_system_shortcuts: the shortcuts read are added
\* to those imported before.
import_system_shortcuts_merging(cfg, sys) ==
    LET import_sources == config_get(cfg, "import_sources", AllSources)
        system_shortcuts == get_system_shortcuts(import_sources, sys)
        old_imported == config_get(cfg, "imported_shortcuts", <<>>)
        new_count == Cardinality({ k \in dict_keys(system_shortcuts) :
                                     ~dict_has(old_imported, k) })
    IN [config |-> ("imported_shortcuts" :> dict_update(old_imported, system_shortcuts))
                       @@ cfg,
        old_imported |-> old_imported,
        system_shortcuts |-> system_shortcuts,
        save |-> new_count > 0 \/ Len(system_shortcuts) # Len(old_imported)]

\* KeymapHelper.import_system_shortcuts, lines 726-748, on the configuration
\* cfg and the schemas sys: the configuration it leaves, its locals
\* old_imported and system_shortcuts, and whether it calls save_config.
import_system_shortcuts(cfg, sys) ==
    LET import_sources == config_get(cfg, "import_sources", AllSources)
        system_shortcuts == get_system_shortcuts(import_sources, sys)
        old_imported == config_get(cfg, "imported_shortcuts", <<>>)
        new_count == Cardinality({ k \in dict_keys(system_shortcuts) :
                                     ~dict_has(old_imported, k) })
    IN [config |-> ("imported_shortcuts" :> system_shortcuts) @@ cfg,
        old_imported |-> old_imported,
        system_shortcuts |-> system_shortcuts,
        save |-> new_count > 0 \/ Len(system_shortcuts) # Len(old_imported)]

\* KeymapHelper.__init__, lines 692-699: whether to import; import_system is
\* <<>> for None.
wants_import(cfg, import_system) ==
    IF import_system = <<>>
    THEN LET import_sources == config_get(cfg, "import_sources", AllSources)
         IN \E name \in DOMAIN import_sources : import_sources[name]
    ELSE import_system[1]

\* The dict show_popup and update_filter build from the four flags.
pressed_keys_of(h) ==
    [ctrl |-> h.ctrl_pressed, super |-> h.super_pressed,
     alt |-> h.alt_pressed, shift |-> h.shift_pressed]

\* The popup start() and show_popup() construct from the configuration.
new_popup(cfg) ==
    KeymapPopup(get_all_shortcuts(cfg), config_get(cfg, "key_aliases", <<>>),
                configured_of(cfg), config_get(cfg, "imported_shortcuts", <<>>))

\* KeymapHelper.update_filter
update_filter(h, cfg) ==
    IF h.popup # <<>>
    THEN [h EXCEPT !.popup = <<filter_shortcuts(h.popup[1], pressed_keys_of(h),
                                                config_get(cfg, "key_aliases", <<>>))>>]
    ELSE h

\* KeymapHelper.show_popup
show_popup(h, cfg) ==
    LET p == IF h.popup = <<>> THEN new_popup(cfg) ELSE h.popup[1]
    IN [h EXCEPT !.popup = <<popup_show(p, FALSE, pressed_keys_of(h))>>]

\* KeymapHelper.hide_popup
hide_popup(h) ==
    IF h.popup # <<>> THEN [h EXCEPT !.popup = <<popup_hide(h.popup[1])>>] ELSE h

\* The callback the main loop dispatches next: the first of those of the
\* highest priority (the lowest number).
next_source(q) ==
    CHOOSE i \in 1..Len(q) :
        /\ \A j \in 1..Len(q) : q[i].priority <= q[j].priority
        /\ \A j \in 1..(i - 1) : q[j].priority # q[i].priority

remove_source(q, i) == SubSeq(q, 1, i - 1) \o SubSeq(q, i + 1, Len(q))

\* One dispatch of the main loop: the callback runs and, returning False, is removed.
dispatch(h, cfg) ==
    LET i == next_source(h.idle)
        fn == h.idle[i].fn
        taken == [h EXCEPT !.idle = remove_source(@, i)]
    IN IF fn = "show_popup" THEN show_popup(taken, cfg)
       ELSE IF fn = "hide_popup" THEN hide_popup(taken)
       ELSE update_filter(taken, cfg)

\* No callback is running: fn is the callback the main loop is in, "" when
\* it is in none; read has the flags the callback has read so far, in the
\* order show_popup and update_filter read them (ctrl, super, alt, shift);
\* seen has the values the four flags have had together.
NoReader == [fn |-> "", read |-> <<>>, seen |-> {<<FALSE, FALSE, FALSE, FALSE>>}]

(***************************************************************************)
(* The state machine.                                                      *)
(***************************************************************************)
\* After KeymapHelper.__init__ (lines 705-710), the configuration loaded.
Init ==
    /\ config \in Configs
    /\ ctrl_pressed = FALSE
    /\ shift_pressed = FALSE
    /\ alt_pressed = FALSE
    /\ super_pressed = FALSE
    /\ popup = <<>>
    /\ listener = FALSE
    /\ idle = <<>>
    /\ disk = config
    /\ system = <<>>
    /\ last_import = <<>>
    /\ binding = ""
    /\ parsed = <<>>
    /\ timer = NoTimer
    /\ reader = NoReader

Becomes(h) ==
    /\ ctrl_pressed' = h.ctrl_pressed
    /\ shift_pressed' = h.shift_pressed
    /\ alt_pressed' = h.alt_pressed
    /\ super_pressed' = h.super_pressed
    /\ popup' = h.popup
    /\ idle' = h.idle

\* KeymapHelper.start: the popup is constructed, the listener and the main loop start.
Start ==
    /\ ~listener
    /\ listener' = TRUE
    /\ popup' = <<new_popup(config)>>
    /\ UNCHANGED <<config, ctrl_pressed, shift_pressed, alt_pressed, super_pressed, idle>>
    /\ UNCHANGED <<importer_vars, timer, reader>>

\* The listener delivers a press of key.
Press(key) ==
    /\ listener
    /\ Len(idle) < MaxQueue
    /\ Becomes(on_press(Self, key))
    /\ UNCHANGED <<config, listener>>
    /\ UNCHANGED <<importer_vars, timer, reader>>

\* The listener delivers a release of key.
Release(key) ==
    /\ listener
    /\ Len(idle) < MaxQueue
    /\ Becomes(on_release(Self, key))
    /\ UNCHANGED <<config, listener>>
    /\ UNCHANGED <<importer_vars, timer, reader>>

\* The main loop runs the next idle callback.
Dispatch ==
    /\ listener
    /\ idle # <<>>
    /\ Becomes(dispatch(Self, config))
    /\ UNCHANGED <<config, listener>>
    /\ UNCHANGED <<importer_vars, timer, reader>>

Next ==
    \/ Start
    \/ \E key \in Keys : Press(key)
    \/ \E key \in Keys : Release(key)
    \/ Dispatch

Spec == Init /\ [][Next]_vars

(***************************************************************************)
(* parse_keybinding applied to raw bindings.                               *)
(***************************************************************************)
\* Tags a raw binding has before its key.
MaxTags == 2

\* Tags of raw bindings: the Control class, the Super class, Shift and Alt
\* in the spellings GSettings and users write, and two tags that are no
\* modifier of parse_keybinding.
TagChoices ==
    {"<Control>", "<ctrl>", "<Primary>", "<Super>", "<Mod4>", "<mod5>",
     "<Shift>", "<Alt>", "<Hyper>", "<Meta>"}

\* What follows the tags: nothing, a key name in the letter cases GSettings
\* and users write, white space, a '+', and the text of an empty array.
FinalChoices ==
    {"", "c", "x", "Left", "Return", "Page_Down", "F5", "[]", " ", "+", " + c",
     "ESCAPE", "bracketLeft"}

TagSeqs == UNION { [1..n -> TagChoices] : n \in 0..MaxTags }

Bindings == { join("", t) \o f : t \in TagSeqs, f \in FinalChoices }

\* The helper's own state, no helper being constructed.
NoHelper ==
    /\ config = <<>>
    /\ ctrl_pressed = FALSE
    /\ shift_pressed = FALSE
    /\ alt_pressed = FALSE
    /\ super_pressed = FALSE
    /\ popup = <<>>
    /\ listener = FALSE
    /\ idle = <<>>

helper_vars == <<config, ctrl_pressed, shift_pressed, alt_pressed, super_pressed,
                 popup, listener, idle>>

ParseInit ==
    /\ NoHelper
    /\ disk = <<>>
    /\ system = <<>>
    /\ last_import = <<>>
    /\ binding \in Bindings
    /\ parsed = <<>>
    /\ timer = NoTimer
    /\ reader = NoReader

\* SystemKeymapImporter.parse_keybinding(binding) is called and returns.
Parse ==
    /\ parsed = <<>>
    /\ parsed' = <<parse_keybinding(binding)>>
    /\ UNCHANGED <<helper_vars, disk, system, last_import, binding, timer, reader>>

ParseNext == Parse

ParseSpec == ParseInit /\ [][ParseNext]_vars

(***************************************************************************)
(* The runs of the program on a desktop: main() constructs the helper,     *)
(* which loads config.json and imports, or imports alone and leaves.       *)
(***************************************************************************)
\* The shortcuts the user configured: one of them is a key the desktop has.
UserShortcuts == << <<"Ctrl+C", "Copy">>, <<"Super+L", "Lock Now">> >>

\* imported_shortcuts of config.json, from an import on another desktop.
EarlierImported == << <<"Super+Old", "Old Entry">>, <<"Super+Q", "Quit">> >>

\* imported_shortcuts of config.json with the keys the media keys and the
\* shell schemas have, under descriptions of an earlier release.
RenamedImported == << <<"Super+L", "Lock">>, <<"Super+S", "Overview">> >>

\* config.json before the first run.
DiskConfigs ==
    LET base == ("configured_shortcuts" :> UserShortcuts)
    IN { base } \cup { ("imported_shortcuts" :> EarlierImported) @@ base }
       \cup { ("import_sources" :> f) @@ base : f \in SourcesChoices }
       \cup { ("import_sources" :> f) @@ ("imported_shortcuts" :> EarlierImported) @@ base :
                f \in SourcesChoices }
       \cup { ("import_sources" :> (("window_manager" :> FALSE) @@ AllSources))
                 @@ ("imported_shortcuts" :> RenamedImported) @@ base }

ImportInit ==
    /\ NoHelper
    /\ disk \in DiskConfigs
    /\ system \in Systems
    /\ last_import = <<>>
    /\ binding = ""
    /\ parsed = <<>>
    /\ timer = NoTimer
    /\ reader = NoReader

\* A faulty variant of save_config: the file keeps the imported shortcuts
\* it had.
save_config_keeps_imported(cfg, ok) ==
    IF ok /\ "imported_shortcuts" \in DOMAIN disk
    THEN ("imported_shortcuts" :> disk["imported_shortcuts"]) @@ cfg
    ELSE disk

\* save_config and the write of main(): the file takes cfg, or the write
\* fails and the file stays.
save_config(cfg, ok) == IF ok THEN cfg ELSE disk

\* What an import leaves for the claims to read: the imported map before,
\* the map read, and whether a write was made and succeeded ("ok"), was
\* made and failed ("failed"), or was not made ("none").
import_record(run, save, ok) ==
    [old_imported |-> run.old_imported,
     system_shortcuts |-> run.system_shortcuts,
     saved |-> IF ~save THEN "none" ELSE IF ok THEN "ok" ELSE "failed"]

\* main(), up to start(): the program is run again.  With --import-only
\* (lines 948-972) the file is read, the import replaces imported_shortcuts
\* and the file is written whatever the import read; no helper is
\* constructed.  Without it (lines 977-981) KeymapHelper(config_path,
\* import_system) is constructed, import_system being None, True or False.
\* ok says whether a write succeeds.
Main(import_only) ==
    /\ \E run \in {import_system_shortcuts(disk, system)} :
          \E import_system \in {<<>>, <<TRUE>>, <<FALSE>>}, ok \in BOOLEAN :
             LET importing == import_only \/ wants_import(disk, import_system)
                 save == import_only \/ run.save
             IN /\ config' = IF import_only THEN <<>>
                             ELSE IF importing THEN run.config ELSE disk
                /\ disk' = IF importing /\ save
                           THEN save_config(run.config, ok) ELSE disk
                /\ last_import' = IF importing
                                  THEN <<import_record(run, save, ok)>>
                                  ELSE <<>>
    /\ ctrl_pressed' = FALSE
    /\ shift_pressed' = FALSE
    /\ alt_pressed' = FALSE
    /\ super_pressed' = FALSE
    /\ popup' = <<>>
    /\ listener' = FALSE
    /\ idle' = <<>>
    /\ UNCHANGED <<system, binding, parsed, timer, reader>>

\* The run that constructs the helper.
Construct == Main(FALSE)

\* Between two runs the desktop changes: the user rebinds keys, a schema is
\* installed or removed.
DesktopChanges(sys) ==
    /\ system' = sys
    /\ UNCHANGED <<helper_vars, disk, last_import, binding, parsed, timer, reader>>

ImportNext ==
    \/ \E import_only \in BOOLEAN : Main(import_only)
    \/ \E sys \in Systems : DesktopChanges(sys)
    \/ (config # <<>> /\ Start)

ImportSpec == ImportInit /\ [][ImportNext]_vars

(***************************************************************************)
(* A popup that is shown with and without a hide timer, hidden, and whose  *)
(* timer expires.                                                          *)
(***************************************************************************)
MaxTimers == 3

TimerKeys == {NoKeys, [NoKeys EXCEPT !.ctrl = TRUE]}

TimerInit ==
    /\ config \in Configs
    /\ ctrl_pressed = FALSE
    /\ shift_pressed = FALSE
    /\ alt_pressed = FALSE
    /\ super_pressed = FALSE
    /\ popup = <<new_popup(config)>>
    /\ listener = FALSE
    /\ idle = <<>>
    /\ disk = config
    /\ system = <<>>
    /\ last_import = <<>>
    /\ binding = ""
    /\ parsed = <<>>
    /\ timer = NoTimer
    /\ reader = NoReader

timer_frame ==
    <<config, ctrl_pressed, shift_pressed, alt_pressed, super_pressed, listener, idle,
      importer_vars, reader>>

\* self.popup.show(use_timeout, pressed_keys)
Show(use_timeout, pressed_keys) ==
    /\ use_timeout => timer.last < MaxTimers
    /\ popup' = <<popup_show(popup[1], use_timeout, pressed_keys)>>
    /\ timer' = show_timeout(timer, use_timeout)
    /\ UNCHANGED timer_frame

\* self.popup.hide()
Hide ==
    /\ popup' = <<popup_hide(popup[1])>>
    /\ timer' = hide_timeout(timer)
    /\ UNCHANGED timer_frame

\* The main loop finds the timeout source id due and dispatches it.
Expire(id) ==
    /\ id \in timer.pending
    /\ popup' = <<popup_hide(popup[1])>>
    /\ timer' = timeout_expires(timer, id)
    /\ UNCHANGED timer_frame

TimerNext ==
    \/ \E use_timeout \in BOOLEAN, pressed_keys \in TimerKeys : Show(use_timeout, pressed_keys)
    \/ Hide
    \/ \E id \in 1..MaxTimers : Expire(id)

TimerSpec == TimerInit /\ [][TimerNext]_vars

(***************************************************************************)
(* The listener thread and the main loop, a callback of the main loop      *)
(* reading the four flags one after the other while the listener's         *)
(* handlers write them: the threads are switched between two reads.        *)
(***************************************************************************)
\* The keys the listener reports here.
RaceKeys == {"ctrl_l", "cmd"}

RaceConfigs == { c \in Configs : DOMAIN c = {"key_aliases"} }

\* start() has returned: the popup is constructed, the listener runs.
RaceInit ==
    /\ config \in RaceConfigs
    /\ ctrl_pressed = FALSE
    /\ shift_pressed = FALSE
    /\ alt_pressed = FALSE
    /\ super_pressed = FALSE
    /\ popup = <<new_popup(config)>>
    /\ listener = TRUE
    /\ idle = <<>>
    /\ disk = config
    /\ system = <<>>
    /\ last_import = <<>>
    /\ binding = ""
    /\ parsed = <<>>
    /\ timer = NoTimer
    /\ reader = NoReader

\* The listener thread runs on_press(key) or on_release(key) to its end.
Listen(key, pressed) ==
    /\ Len(idle) < MaxQueue
    /\ Becomes(IF pressed THEN on_press(Self, key) ELSE on_release(Self, key))
    /\ reader' = [reader EXCEPT
                    !.seen = @ \cup {<<ctrl_pressed', super_pressed', alt_pressed',
                                       shift_pressed'>>}]
    /\ UNCHANGED <<config, listener, importer_vars, timer>>

\* The main loop takes the next callback, show_popup or update_filter, and
\* enters it (self.popup is constructed: lines 857 and 870).
Enter ==
    /\ reader.fn = ""
    /\ idle # <<>>
    /\ idle[next_source(idle)].fn \in {"show_popup", "update_filter"}
    /\ reader' = [reader EXCEPT !.fn = idle[next_source(idle)].fn, !.read = <<>>]
    /\ idle' = remove_source(idle, next_source(idle))
    /\ UNCHANGED <<config, ctrl_pressed, shift_pressed, alt_pressed, super_pressed, popup,
                   listener, importer_vars, timer>>

\* The callback reads the next flag for its dict (lines 858-863, 880-885).
ReadFlag ==
    /\ reader.fn # ""
    /\ Len(reader.read) < 4
    /\ reader' = [reader EXCEPT
                    !.read = Append(@, <<ctrl_pressed, super_pressed, alt_pressed,
                                         shift_pressed>>[Len(reader.read) + 1])]
    /\ UNCHANGED <<config, ctrl_pressed, shift_pressed, alt_pressed, super_pressed, popup,
                   listener, idle, importer_vars, timer>>

\* The helper as the callback has read it.
AsRead ==
    [Self EXCEPT !.ctrl_pressed = reader.read[1], !.super_pressed = reader.read[2],
                 !.alt_pressed = reader.read[3], !.shift_pressed = reader.read[4]]

\* The callback passes its dict to the popup and returns (lines 865-866,
\* 890-891).
Leave ==
    /\ reader.fn # ""
    /\ Len(reader.read) = 4
    /\ popup' = IF reader.fn = "show_popup"
                THEN show_popup(AsRead, config).popup
                ELSE update_filter(AsRead, config).popup
    /\ reader' = [reader EXCEPT !.fn = "", !.read = <<>>]
    /\ UNCHANGED <<config, ctrl_pressed, shift_pressed, alt_pressed, super_pressed,
                   listener, idle, importer_vars, timer>>

\* The main loop runs hide_popup, which reads no flag.
RunHide ==
    /\ reader.fn = ""
    /\ idle # <<>>
    /\ idle[next_source(idle)].fn = "hide_popup"
    /\ Becomes(dispatch(Self, config))
    /\ UNCHANGED <<config, listener, importer_vars, timer, reader>>

RaceNext ==
    \/ \E key \in RaceKeys, pressed \in BOOLEAN : Listen(key, pressed)
    \/ Enter
    \/ ReadFlag
    \/ Leave
    \/ RunHide

RaceSpec == RaceInit /\ [][RaceNext]_vars

(***************************************************************************)
(* What the claims read from a state.                                      *)
(***************************************************************************)
HasPopup == popup # <<>>

\* The overlay window is on screen.
Visible == HasPopup /\ popup[1].window = "shown"

Qualifying(pressed_keys) == pressed_keys.ctrl \/ pressed_keys.super \/ pressed_keys.alt

QualifyingHeld == ctrl_pressed \/ super_pressed \/ alt_pressed

\* filter_shortcuts has run on the popup; FilterKeys is the state it was given.
Filtered == HasPopup /\ popup[1].pressed_keys # <<>>

FilterKeys == popup[1].pressed_keys[1]

\* The prefix of section 4.4: the held modifiers in the order Ctrl, Super,
\* Alt, Shift, each followed by '+', in lower case.
LowerPrefix(pressed_keys) ==
    (IF pressed_keys.ctrl THEN "ctrl+" ELSE "")
    \o (IF pressed_keys.super THEN "super+" ELSE "")
    \o (IF pressed_keys.alt THEN "alt+" ELSE "")
    \o (IF pressed_keys.shift THEN "shift+" ELSE "")

NoDuplicateKeys(d) == \A i, j \in 1..Len(d) : d[i][1] = d[j][1] => i = j

(***************************************************************************)
(* C1.  The merged view get_all_shortcuts returns has exactly the keys of  *)
(* the imported and of the configured map; a key of the configured map     *)
(* has the configured description, also when it is an imported key, and a  *)
(* key of the imported map alone has the imported description.  The popup  *)
(* is constructed with that view.                                          *)
(***************************************************************************)
C1_MergePrecedence ==
    LET imported == config_get(config, "imported_shortcuts", <<>>)
        configured == IF "configured_shortcuts" \in DOMAIN config
                      THEN config["configured_shortcuts"]
                      ELSE config_get(config, "shortcuts", <<>>)
        merged == get_all_shortcuts(config)
    IN /\ dict_keys(merged) = dict_keys(imported) \cup dict_keys(configured)
       /\ NoDuplicateKeys(merged)
       /\ \A k \in dict_keys(configured) : dict_get(merged, k) = dict_get(configured, k)
       /\ \A k \in dict_keys(imported) \ dict_keys(configured) :
              dict_get(merged, k) = dict_get(imported, k)
       /\ HasPopup => popup[1].shortcuts = merged

\* The popup holds a merged view in which a key of both maps, described
\* differently by each, carries the configured description.
C1_Witness ==
    /\ HasPopup
    /\ \E k \in dict_keys(configured_of(config)) :
          /\ dict_has(config_get(config, "imported_shortcuts", <<>>), k)
          /\ dict_get(config_get(config, "imported_shortcuts", <<>>), k)
                # dict_get(configured_of(config), k)
          /\ dict_get(popup[1].shortcuts, k) = dict_get(configured_of(config), k)
    /\ \E k \in dict_keys(popup[1].shortcuts) : ~dict_has(configured_of(config), k)

(***************************************************************************)
(* C2.  After filter_shortcuts has run with at least one of ctrl, super,   *)
(* alt held, a key of the merged view is a key of the filter result if     *)
(* and only if its lower case form starts with the lower case prefix of    *)
(* the held modifiers (order Ctrl, Super, Alt, Shift, each with '+').      *)
(***************************************************************************)
C2_FilterCompleteness ==
    (Filtered /\ Qualifying(FilterKeys)) =>
        \A s \in dict_keys(popup[1].shortcuts) :
            dict_has(popup[1].filtered_shortcuts, s)
                <=> startswith(lower(s), LowerPrefix(FilterKeys))

\* Ctrl and Shift were held at the filter: a key written in lower case is
\* selected, and a key that matches Ctrl+ alone is left out.
C2_Witness ==
    /\ Filtered
    /\ FilterKeys = [ctrl |-> TRUE, super |-> FALSE, alt |-> FALSE, shift |-> TRUE]
    /\ dict_has(popup[1].filtered_shortcuts, "ctrl+shift+t")
    /\ dict_has(popup[1].shortcuts, "Ctrl+C")
    /\ ~dict_has(popup[1].filtered_shortcuts, "Ctrl+C")

(***************************************************************************)
(* C3.  As claimed: filter_shortcuts called with no qualifying modifier    *)
(* held (all four flags false, or shift alone) leaves an empty filter      *)
(* result and a label without modifier suffix.                             *)
(***************************************************************************)
C3_EmptyWithoutQualifying ==
    (Filtered /\ ~Qualifying(FilterKeys)) =>
        /\ popup[1].filtered_shortcuts = <<>>
        /\ popup[1].title_label \in {"None", BaseTitle}

OnlyShift == [ctrl |-> FALSE, super |-> FALSE, alt |-> FALSE, shift |-> TRUE]

\* The aliases filter_shortcuts adds under a prefix.
AliasKeysUnder(p, prefix) ==
    { p.key_aliases[i][1] : i \in { j \in 1..Len(p.key_aliases) :
          /\ startswith(lower(p.key_aliases[j][1]), prefix)
          /\ dict_has(p.shortcuts, p.key_aliases[j][2]) } }

(***************************************************************************)
(* C3, amended.  Called with all four flags false, filter_shortcuts leaves *)
(* an empty result, an empty list and the label without suffix; called     *)
(* with shift alone it selects the keys that start with 'shift+' (and the  *)
(* aliases that do) and the label has the suffix (SHIFT + ...).            *)
(***************************************************************************)
C3_EmptyWhenNoneHeld ==
    /\ (Filtered /\ FilterKeys = NoKeys) =>
          /\ popup[1].filtered_shortcuts = <<>>
          /\ popup[1].title_label \in {"None", BaseTitle}
          /\ popup[1].shortcuts_box \in {<<>>, << <<>> >>}
    /\ (Filtered /\ FilterKeys = OnlyShift) =>
          /\ dict_keys(popup[1].filtered_shortcuts) =
                { k \in dict_keys(popup[1].shortcuts) : startswith(lower(k), "shift+") }
                \cup AliasKeysUnder(popup[1], "shift+")
          /\ popup[1].title_label \in {"None", "<b>Available Shortcuts (SHIFT + ...)</b>"}

\* The filter ran with no flag set on a merged view that has entries, the
\* window made; and it ran with shift alone and selected an entry.
C3_Witness ==
    /\ Filtered
    /\ FilterKeys = NoKeys
    /\ popup[1].shortcuts # <<>>
    /\ popup[1].key_aliases # <<>>
    /\ popup[1].title_label = BaseTitle

C3_WitnessShift ==
    /\ Filtered
    /\ FilterKeys = OnlyShift
    /\ popup[1].filtered_shortcuts # <<>>
    /\ popup[1].title_label # "None"

(***************************************************************************)
(* C4.  Once every enqueued callback has run, the overlay is visible if    *)
(* and only if one of ctrl, super, alt is held; a step that takes the      *)
(* flags from none held to one held enqueues show_popup, a step that       *)
(* takes them from one held to none held enqueues hide_popup.              *)
(***************************************************************************)
ShowEntry == [fn |-> "show_popup", priority |-> PRIORITY_DEFAULT_IDLE]
HideEntry == [fn |-> "hide_popup", priority |-> PRIORITY_DEFAULT_IDLE]

C4_Drained == (listener /\ idle = <<>>) => (Visible <=> QualifyingHeld)

C4_Transitions ==
    /\ (~QualifyingHeld /\ QualifyingHeld') => idle' = Append(idle, ShowEntry)
    /\ (QualifyingHeld /\ ~QualifyingHeld') => idle' = Append(idle, HideEntry)

C4_VisibleIffHeld == [](C4_Drained) /\ [][C4_Transitions]_vars

\* The overlay was shown and is hidden again, nothing held, nothing pending;
\* and it is shown, alt alone held, nothing pending.
C4_Witness ==
    /\ listener /\ idle = <<>>
    /\ HasPopup /\ popup[1].window = "hidden"
    /\ ~QualifyingHeld

C4_WitnessShown ==
    /\ listener /\ idle = <<>>
    /\ Visible
    /\ alt_pressed /\ ~ctrl_pressed /\ ~super_pressed

(***************************************************************************)
(* C5.  After filter_shortcuts has run with a non-empty prefix: an alias   *)
(* whose lower case form starts with the prefix and whose target is a key  *)
(* of the merged view is a key of the result, described by the target's    *)
(* merged description followed by ' (via <target>)'; for any other alias   *)
(* no entry is made: the result has no such key, or it is the merged       *)
(* view's own entry of that key.                                           *)
(***************************************************************************)
C5_AliasInclusion ==
    (Filtered /\ FilterKeys # NoKeys) =>
        LET p == popup[1]
            prefix == LowerPrefix(FilterKeys)
        IN \A i \in 1..Len(p.key_aliases) :
              LET alias == p.key_aliases[i][1]
                  target == p.key_aliases[i][2]
              IN IF startswith(lower(alias), prefix) /\ dict_has(p.shortcuts, target)
                 THEN /\ dict_has(p.filtered_shortcuts, alias)
                      /\ dict_get(p.filtered_shortcuts, alias)
                            = dict_get(p.shortcuts, target) \o " (via " \o target \o ")"
                 ELSE \/ ~dict_has(p.filtered_shortcuts, alias)
                      \/ /\ dict_has(p.shortcuts, alias)
                         /\ startswith(lower(alias), prefix)
                         /\ dict_get(p.filtered_shortcuts, alias) = dict_get(p.shortcuts, alias)

\* The alias Shift+Delete of Insert, Insert described as Cut, is listed as
\* 'Cut (via Insert)'; the alias Ctrl+Ins of a missing target is not listed.
C5_Witness ==
    /\ Filtered
    /\ dict_has(popup[1].key_aliases, "Shift+Delete")
    /\ dict_get(popup[1].key_aliases, "Shift+Delete") = "Insert"
    /\ dict_has(popup[1].shortcuts, "Insert")
    /\ dict_get(popup[1].shortcuts, "Insert") = "Cut"
    /\ dict_has(popup[1].filtered_shortcuts, "Shift+Delete")
    /\ dict_get(popup[1].filtered_shortcuts, "Shift+Delete") = "Cut (via Insert)"
    /\ ~dict_has(popup[1].filtered_shortcuts, "Ctrl+Ins")

(***************************************************************************)
(* C6.  The rows of the list are an ordered partition of the filter        *)
(* result: each entry of the result is one row and each row one entry; a   *)
(* row is in the priority group if and only if its key is, as written, a   *)
(* key of the configured shortcuts; each group is in ascending order of    *)
(* the lowered keys; the priority rows come before the other rows, a       *)
(* separator between the two groups when neither is empty.                 *)
(***************************************************************************)
RowsOf(box) == SelectSeq(box, LAMBDA r : r.kind = "row")

IsPriority(key) ==
    \E i \in 1..Len(configured_of(config)) : configured_of(config)[i][1] = key

C6_OrderedPartition ==
    (HasPopup /\ popup[1].shortcuts_box # <<>>) =>
        LET box == popup[1].shortcuts_box[1]
            rows == RowsOf(box)
            filtered == popup[1].filtered_shortcuts
            priority == { i \in 1..Len(box) : box[i].kind = "row" /\ IsPriority(box[i].key) }
            secondary == { i \in 1..Len(box) : box[i].kind = "row" /\ ~IsPriority(box[i].key) }
            separators == { i \in 1..Len(box) : box[i].kind = "separator" }
        IN /\ Len(rows) = Len(filtered)
           /\ \A i \in 1..Len(filtered) :
                 \E j \in 1..Len(rows) :
                    rows[j].key = filtered[i][1] /\ rows[j].description = filtered[i][2]
           /\ \A i \in priority, j \in secondary : i < j
           /\ \A i, j \in priority :
                 i < j => ~str_less(lower(box[j].key), lower(box[i].key))
           /\ \A i, j \in secondary :
                 i < j => ~str_less(lower(box[j].key), lower(box[i].key))
           /\ IF priority # {} /\ secondary # {}
              THEN /\ Cardinality(separators) = 1
                   /\ \A s \in separators :
                         (\A i \in priority : i < s) /\ (\A j \in secondary : s < j)
              ELSE separators = {}

\* The list shows two priority rows and two other rows, the filter result
\* holding them in another order, and a key that differs from a configured
\* key by its case alone is among the other rows.
C6_Witness ==
    /\ HasPopup /\ popup[1].shortcuts_box # <<>>
    /\ LET box == popup[1].shortcuts_box[1]
       IN /\ Len(box) = 5
          /\ box[3].kind = "separator"
          /\ box[1].key = "Ctrl+a" /\ box[2].key = "Ctrl+Z"
          /\ box[4].key = "CTRL+A" /\ box[5].key = "ctrl+b"
          /\ popup[1].filtered_shortcuts[1][1] = "ctrl+b"

(***************************************************************************)
(* The listener's events, as the claims about them read them.              *)
(***************************************************************************)
Flags == <<ctrl_pressed, super_pressed, alt_pressed, shift_pressed>>

\* The keys of ctrl, super and alt, and the flag each one drives.
QualifyingKeys == {"ctrl_l", "ctrl_r", "cmd", "cmd_r", "vk133", "vk134", "alt_l", "alt_r"}

ModifierKeys == QualifyingKeys \cup {"shift_l", "shift_r"}

FlagOf(h, key) ==
    IF key \in {"ctrl_l", "ctrl_r"} THEN h.ctrl_pressed
    ELSE IF key \in {"cmd", "cmd_r", "vk133", "vk134"} THEN h.super_pressed
    ELSE IF key \in {"alt_l", "alt_r"} THEN h.alt_pressed
    ELSE h.shift_pressed

FlagsOf(h) == <<h.ctrl_pressed, h.super_pressed, h.alt_pressed, h.shift_pressed>>

\* The left and the right variant of each modifier.
Variants == { <<"ctrl_l", "ctrl_r">>, <<"shift_l", "shift_r">>,
              <<"alt_l", "alt_r">>, <<"cmd", "cmd_r">> }

RefreshEntry == [fn |-> "update_filter", priority |-> PRIORITY_DEFAULT_IDLE]
RefreshHighEntry == [fn |-> "update_filter", priority |-> PRIORITY_HIGH]

(***************************************************************************)
(* C7.  For ctrl, super and alt: a press with the flag held, of either     *)
(* variant, changes no flag and enqueues nothing; a press with the flag    *)
(* released sets the flag alone and enqueues one show_popup.  So two       *)
(* presses with no release between leave the flag held and one callback    *)
(* enqueued, that of the first.                                            *)
(***************************************************************************)
C7_PressStep ==
    \A key \in QualifyingKeys :
        Press(key) =>
            IF FlagOf(Self, key)
            THEN UNCHANGED <<Flags, idle>>
            ELSE /\ FlagOf(Self, key)'
                 /\ idle' = Append(idle, ShowEntry)
                 /\ \E i \in 1..4 : \A j \in (1..4) \ {i} : Flags'[j] = Flags[j]

C7_TwoPresses ==
    listener =>
        \A first, second \in QualifyingKeys :
            (FlagOf(Self, first) = FlagOf(Self, second) /\ ~FlagOf(Self, first)
             /\ FlagOf(on_press(Self, first), second)) =>
                LET once == on_press(Self, first)
                    twice == on_press(once, second)
                IN /\ FlagOf(twice, first)
                   /\ twice = once
                   /\ twice.idle = Append(idle, ShowEntry)

C7_PressIdempotent == [](C7_TwoPresses) /\ [][C7_PressStep]_vars

\* Ctrl is held after presses with no release and no dispatch since the
\* start: one show_popup waits.
C7_Witness ==
    /\ listener
    /\ ctrl_pressed /\ ~super_pressed /\ ~alt_pressed /\ ~shift_pressed
    /\ idle = <<ShowEntry>>
    /\ popup[1].window = "None"

(***************************************************************************)
(* C8.  As claimed: from the flag released, the press of the left          *)
(* variant, the press of the right variant and the release of the left     *)
(* variant leave the flag held, for ctrl, shift, alt and super.            *)
(***************************************************************************)
AfterLeftRightLeft(v) == on_release(on_press(on_press(Self, v[1]), v[2]), v[1])

C8_HeldAfterOneRelease ==
    listener =>
        \A v \in Variants : ~FlagOf(Self, v[1]) => FlagOf(AfterLeftRightLeft(v), v[1])

(***************************************************************************)
(* C8, amended.  From the flag released, the press of the left variant     *)
(* and the press of the right variant leave the flag held, and the         *)
(* release of the left variant then leaves it released: the flag does not  *)
(* count the variants held.  The same for ctrl, shift, alt and super.      *)
(***************************************************************************)
C8_ReleasedAfterOneRelease ==
    listener =>
        \A v \in Variants :
            ~FlagOf(Self, v[1]) =>
                /\ FlagOf(on_press(on_press(Self, v[1]), v[2]), v[1])
                /\ ~FlagOf(AfterLeftRightLeft(v), v[1])
                /\ \A w \in Variants \ {v} :
                      FlagOf(AfterLeftRightLeft(v), w[1]) = FlagOf(Self, w[1])

\* The state after the three events on ctrl, nothing dispatched since the
\* start: every flag released, show_popup and hide_popup waiting.
C8_Witness ==
    /\ listener
    /\ Flags = <<FALSE, FALSE, FALSE, FALSE>>
    /\ idle = <<ShowEntry, HideEntry>>
    /\ popup[1].window = "None"

(***************************************************************************)
(* C9.  As claimed: a release of a modifier whose flag is released         *)
(* changes no flag and enqueues nothing.                                   *)
(***************************************************************************)
C9_ReleaseStepNoop ==
    \A key \in ModifierKeys :
        (Release(key) /\ ~FlagOf(Self, key)) => UNCHANGED <<Flags, idle>>

C9_ReleaseIsNoop == [][C9_ReleaseStepNoop]_vars

(***************************************************************************)
(* C9, amended.  A release of a modifier whose flag is released changes    *)
(* no flag and enqueues no show_popup, but it enqueues what a release      *)
(* enqueues: for ctrl, super and alt, hide_popup when neither of the two   *)
(* others is held and update_filter otherwise; for shift, update_filter    *)
(* when one of ctrl, super, alt is held and nothing otherwise.             *)
(***************************************************************************)
C9_ReleaseStep ==
    \A key \in ModifierKeys :
        (Release(key) /\ ~FlagOf(Self, key)) =>
            /\ UNCHANGED Flags
            /\ idle' = IF key \in QualifyingKeys
                       THEN Append(idle, IF QualifyingHeld THEN RefreshEntry ELSE HideEntry)
                       ELSE IF QualifyingHeld THEN Append(idle, RefreshEntry) ELSE idle

\* What on_release enqueues for key in the current state, flag released.
C9_ReleaseResult ==
    listener =>
        \A key \in ModifierKeys :
            ~FlagOf(Self, key) =>
                /\ FlagsOf(on_release(Self, key)) = Flags
                /\ on_release(Self, key).idle =
                      IF key \in QualifyingKeys
                      THEN Append(idle, IF QualifyingHeld THEN RefreshEntry ELSE HideEntry)
                      ELSE IF QualifyingHeld THEN Append(idle, RefreshEntry) ELSE idle

C9_ReleaseOfReleased == [](C9_ReleaseResult) /\ [][C9_ReleaseStep]_vars

\* A release came with every flag released, since the start: hide_popup
\* waits and no window was ever made.
C9_Witness ==
    /\ listener
    /\ Flags = <<FALSE, FALSE, FALSE, FALSE>>
    /\ idle = <<HideEntry>>
    /\ popup[1].window = "None"

(***************************************************************************)
(* C10.  A step that changes the shift flag while one of ctrl, super, alt  *)
(* is held enqueues update_filter; and once every callback has run, the    *)
(* filter shown was computed with the current value of the shift flag.     *)
(***************************************************************************)
C10_ShiftStep ==
    (shift_pressed' # shift_pressed /\ QualifyingHeld) =>
        /\ UNCHANGED <<ctrl_pressed, super_pressed, alt_pressed>>
        /\ idle' = Append(idle, IF shift_pressed' THEN RefreshHighEntry ELSE RefreshEntry)

C10_Drained ==
    (listener /\ idle = <<>> /\ Visible) =>
        (Filtered /\ FilterKeys.shift = shift_pressed)

C10_ShiftRefreshes == [](C10_Drained) /\ [][C10_ShiftStep]_vars

\* Shift was pressed with ctrl held and the overlay shown: the refresh
\* waits; and the refresh has run, the filter holding the shift value.
C10_Witness ==
    /\ Visible
    /\ ctrl_pressed /\ shift_pressed
    /\ idle = <<RefreshHighEntry>>
    /\ ~FilterKeys.shift

C10_WitnessRefreshed ==
    /\ Visible
    /\ ctrl_pressed /\ shift_pressed
    /\ idle = <<>>
    /\ FilterKeys.shift
    /\ popup[1].filtered_shortcuts # <<>>


(***************************************************************************)
(* C11.  Once start() has constructed the popup and started the listener,  *)
(* a press or a release of shift enqueues nothing or update_filter, never  *)
(* show_popup or hide_popup, whatever the other flags; the handler itself  *)
(* leaves the popup alone, and update_filter leaves the window as it was   *)
(* (made or not, shown or hidden).                                         *)
(***************************************************************************)
ShiftKeys == { key \in Keys : is_shift(key) }

C11_ShiftHandlers ==
    listener =>
        /\ \A key \in ShiftKeys :
              /\ on_press(Self, key).idle \in {idle, Append(idle, RefreshHighEntry)}
              /\ on_press(Self, key).popup = popup
              /\ on_release(Self, key).idle \in {idle, Append(idle, RefreshEntry)}
              /\ on_release(Self, key).popup = popup
        /\ update_filter(Self, config).popup # <<>>
        /\ update_filter(Self, config).popup[1].window = popup[1].window

C11_ShiftStep ==
    (shift_pressed' # shift_pressed) =>
        /\ popup' = popup
        /\ idle' \in {idle, Append(idle, RefreshHighEntry), Append(idle, RefreshEntry)}

C11_ShiftNeverShowsOrHides == [](C11_ShiftHandlers) /\ [][C11_ShiftStep]_vars

\* Shift was pressed with ctrl held before the pending show_popup ran: the
\* press added the refresh only, and no window is made yet.
C11_Witness ==
    /\ listener
    /\ shift_pressed /\ ctrl_pressed
    /\ idle = <<ShowEntry, RefreshHighEntry>>
    /\ popup[1].window = "None"

\* The refresh a shift press enqueued has run ahead of show_popup: the
\* filter holds the shift value and there is still no window.
C11_WitnessRefreshed ==
    /\ listener
    /\ shift_pressed /\ ctrl_pressed
    /\ idle = <<ShowEntry>>
    /\ Filtered /\ FilterKeys.shift
    /\ popup[1].window = "None"


(***************************************************************************)
(* What the claims read from an import.                                    *)
(***************************************************************************)
Imported == last_import # <<>>

\* The imported map before the import, and the map the import read.
OldImported == last_import[1].old_imported
SystemShortcuts == last_import[1].system_shortcuts

ImportedOf(cfg) == config_get(cfg, "imported_shortcuts", <<>>)

(***************************************************************************)
(* C12.  After import_system_shortcuts the imported map of the             *)
(* configuration is the map the import read, whatever was imported         *)
(* before: a key of the earlier imported map that the import did not read  *)
(* is a key of the merged view only when it is a configured key, and the   *)
(* popup is constructed with that merged view; no step changes the         *)
(* configured map, in memory or in the file.                               *)
(***************************************************************************)
C12_Replaced ==
    (Imported /\ config # <<>>) =>
        /\ ImportedOf(config) = SystemShortcuts
        /\ \A k \in dict_keys(OldImported) \ dict_keys(SystemShortcuts) :
              dict_has(get_all_shortcuts(config), k) => dict_has(configured_of(config), k)
        /\ HasPopup => popup[1].shortcuts = get_all_shortcuts(config)

C12_ConfiguredKept ==
    /\ configured_of(disk') = configured_of(disk)
    /\ config' # <<>> => configured_of(config') \in {configured_of(config), configured_of(disk)}

C12_ImportReplaces == [](C12_Replaced) /\ [][C12_ConfiguredKept]_vars

\* An import read nothing after an import that read every schema: Super+Q,
\* read by the first alone, has left the merged view the popup has, and
\* Super+L, read by the first alone too, stays as the configured key it is.
C12_Witness ==
    /\ Imported
    /\ listener
    /\ dict_has(OldImported, "Super+Q") /\ dict_get(OldImported, "Super+Q") = "Close"
    /\ dict_has(OldImported, "Super+L")
    /\ SystemShortcuts = <<>>
    /\ ~dict_has(popup[1].shortcuts, "Super+Q")
    /\ dict_has(popup[1].shortcuts, "Super+L")
    /\ dict_get(popup[1].shortcuts, "Super+L") = "Lock Now"


(***************************************************************************)
(* What the claims read from a call of parse_keybinding.                   *)
(***************************************************************************)
Parsed == parsed # <<>>

\* What the call returned: <<>> for None, <<s>> for the str s.
Result == parsed[1]

\* The state of the loop over the tags of the binding, and the final key.
TagsOf(b) == scan_tags(NoTags, findall_tags(b, 1))
FinalKeyOf(b) == IF TagsOf(b).key # <<>> THEN TagsOf(b).key ELSE remaining_key(b)

HasModifier(b, name) == \E i \in 1..Len(TagsOf(b).modifiers) : TagsOf(b).modifiers[i] = name

(***************************************************************************)
(* C13.  As claimed, and as the docstring of parse_keybinding has it:      *)
(* '<Control>c' gives 'c', '<Control><Shift>c' gives 'Shift+c' and         *)
(* '<Super>Left' gives 'Super+Left'; a final key of one character that     *)
(* follows the tags is the last character of the result, as written.       *)
(***************************************************************************)
C13_KeyAsWritten ==
    Parsed =>
        /\ binding = "<Control>c" => Result = <<"c">>
        /\ binding = "<Control><Shift>c" => Result = <<"Shift+c">>
        /\ binding = "<Super>Left" => Result = <<"Super+Left">>
        /\ (TagsOf(binding).key = <<>> /\ remaining_key(binding) # <<>>
              /\ Len(remaining_key(binding)[1]) = 1) =>
                 /\ Result # <<>>
                 /\ CharAt(Result[1], Len(Result[1])) = remaining_key(binding)[1]

(***************************************************************************)
(* C14.  As claimed: in the normalized key Shift is written once when the  *)
(* binding has a Shift tag, Alt once when it has an Alt tag, Shift before  *)
(* Alt, after the Super+ prefix and before the key, whatever the order     *)
(* and the number of the tags: '<Alt><Shift>Return' gives                  *)
(* 'Shift+Alt+Enter' and '<Shift><Shift>x' has one Shift.                  *)
(***************************************************************************)
C14_ShiftThenAltOnce ==
    (Parsed /\ Result # <<>>) =>
        /\ Result[1] = (IF TagsOf(binding).has_super THEN "Super+" ELSE "")
                          \o (IF HasModifier(binding, "Shift") THEN "Shift+" ELSE "")
                          \o (IF HasModifier(binding, "Alt") THEN "Alt+" ELSE "")
                          \o normalize_key(FinalKeyOf(binding)[1])
        /\ binding = "<Alt><Shift>Return" => Result = <<"Shift+Alt+Enter">>
        /\ binding = "<Shift><Shift>x" => Result = <<"Shift+X">>


\* Tags of the Control class and of the Super class, in several letter cases.
ControlTags == {"<Control>", "<ctrl>", "<PRIMARY>", "<Ctrl>"}
SuperNames == {"super", "mod4", "mod5"}

\* The binding s from position i on, its tags of the Super class taken out.
RECURSIVE without_super_from(_, _)
without_super_from(s, i) ==
    IF i > Len(s) THEN ""
    ELSE IF tag_at(s, i)
         THEN (IF lower(SubSeq(s, i + 1, next_close(s, i + 1) - 1)) \in SuperNames
               THEN "" ELSE SubSeq(s, i, next_close(s, i + 1)))
                 \o without_super_from(s, next_close(s, i + 1) + 1)
         ELSE CharAt(s, i) \o without_super_from(s, i + 1)

WithoutSuper(b) == without_super_from(b, 1)

SuperPlus(result) == IF result = <<>> THEN <<>> ELSE <<"Super+" \o result[1]>>

(***************************************************************************)
(* C15.  As claimed: for every binding, a tag of the Control class put     *)
(* before it or after it leaves the result of parse_keybinding as it is,   *)
(* and a binding with a tag of the Super class gives 'Super+' and then     *)
(* the result of the binding without its tags of the Super class.          *)
(***************************************************************************)
C15_ControlNeverWritten ==
    Parsed =>
        /\ \A c \in ControlTags :
              /\ parse_keybinding(c \o binding) = Result
              /\ parse_keybinding(binding \o c) = Result
        /\ TagsOf(binding).has_super =>
              Result = SuperPlus(parse_keybinding(WithoutSuper(binding)))

(***************************************************************************)
(* C15, amended.  The same, for every binding other than '[]', the text    *)
(* of an empty array, and for every binding with a tag of the Super class  *)
(* that is not '[]' once these tags are taken out: '[]' alone is None, and *)
(* with a tag it has the final key '[]'.                                   *)
(***************************************************************************)
C15_ControlDroppedSuperPrefixed ==
    Parsed =>
        /\ binding # "[]" =>
              \A c \in ControlTags :
                 /\ parse_keybinding(c \o binding) = Result
                 /\ parse_keybinding(binding \o c) = Result
        /\ (TagsOf(binding).has_super /\ WithoutSuper(binding) # "[]") =>
              Result = SuperPlus(parse_keybinding(WithoutSuper(binding)))

\* A binding with a Control tag and a Super tag was parsed: Super is the
\* prefix and Control is not written.
C15_Witness ==
    /\ Parsed
    /\ binding = "<Control><Mod4>x"
    /\ Result = <<"Super+X">>

\* A binding with a Control tag and no Super tag was parsed.
C15_WitnessControl ==
    /\ Parsed
    /\ binding = "<Primary><Shift>Left"
    /\ Result = <<"Shift+Left">>


\* The binding has tags of the Control class, of the Super class, Shift and
\* Alt only, and around them nothing but '+' and white space.
OnlyModifiers(b) ==
    /\ TagsOf(b).key = <<>>
    /\ \A i \in 1..Len(sub_tags(b, 1)) :
          CharAt(sub_tags(b, 1), i) \in Whitespace \cup {"+"}

\* What follows the last '+' of s that has a character after it.
RECURSIVE last_token(_)
last_token(s) ==
    IF \E i \in 1..(Len(s) - 1) : CharAt(s, i) = "+"
    THEN last_token(SubSeq(s, 1 + (CHOOSE i \in 1..(Len(s) - 1) : CharAt(s, i) = "+"), Len(s)))
    ELSE s

(***************************************************************************)
(* C16.  parse_keybinding returns None for the empty string, for '[]' and  *)
(* for every binding that has recognized modifier tags, '+' and white      *)
(* space only; when it returns a key, the binding has a final key that is  *)
(* not empty, and the key ends with its normalized form, not empty either. *)
(***************************************************************************)
C16_NoneWithoutFinalKey ==
    Parsed =>
        /\ binding \in {"", "[]"} => Result = <<>>
        /\ OnlyModifiers(binding) => Result = <<>>
        /\ Result # <<>> =>
              /\ FinalKeyOf(binding) # <<>>
              /\ FinalKeyOf(binding)[1] # ""
              /\ last_token(Result[1]) # ""
              /\ last_token(Result[1]) = last_token(normalize_key(FinalKeyOf(binding)[1]))

\* A Super tag, a Shift tag and a '+' were parsed: there is no key.
C16_Witness ==
    /\ Parsed
    /\ binding = "<Super><Shift>+"
    /\ Result = <<>>

\* Tags and a key between white space and '+' were parsed: the key is found.
C16_WitnessKey ==
    /\ Parsed
    /\ binding = "<Control><Alt> + c"
    /\ Result = <<"Alt+C">>

(***************************************************************************)
(* C17.  Whatever filter calls came before, the filter result the last     *)
(* filter_shortcuts call left is a function of that call's arguments       *)
(* alone, the merged view, the modifier state and the alias table, and so  *)
(* is the label once the window is made: two calls with the same           *)
(* arguments leave the same result and the same label.                     *)
(***************************************************************************)
C17_FilterHistoryIndependent ==
    Filtered =>
        /\ popup[1].filtered_shortcuts =
              filtered_for(popup[1].shortcuts, FilterKeys,
                           config_get(config, "key_aliases", <<>>))
        /\ popup[1].title_label # "None" => popup[1].title_label = title_markup(FilterKeys)

\* The filter ran with ctrl held and later with nothing held: the popup
\* still has the modifiers of the earlier call, a result of the earlier
\* call it has not.
C17_Witness ==
    /\ Filtered
    /\ FilterKeys = NoKeys
    /\ popup[1].current_modifiers.ctrl
    /\ popup[1].window # "None"
    /\ popup[1].shortcuts # <<>>
    /\ popup[1].filtered_shortcuts = <<>>

\* The filter ran with ctrl and shift held after it ran with ctrl alone: the
\* result has the keys under ctrl+shift+ only.
C17_WitnessNarrowed ==
    /\ Filtered
    /\ FilterKeys = [ctrl |-> TRUE, super |-> FALSE, alt |-> FALSE, shift |-> TRUE]
    /\ dict_has(popup[1].filtered_shortcuts, "ctrl+shift+t")
    /\ ~dict_has(popup[1].filtered_shortcuts, "Ctrl+C")
    /\ popup[1].title_label = "<b>Available Shortcuts (CTRL + SHIFT + ...)</b>"

\* A step recomputes the filter when the popup's record of the last filter
\* call or its result changes.
FilterRecomputed ==
    /\ HasPopup
    /\ HasPopup'
    /\ \/ popup'[1].pressed_keys # popup[1].pressed_keys
       \/ popup'[1].filtered_shortcuts # popup[1].filtered_shortcuts

(***************************************************************************)
(* C18.  Every step that writes one of the four modifier flags, and every  *)
(* step that recomputes the filter, is a step of the main loop running a   *)
(* queued callback: the listener's on_press and on_release only enqueue.   *)
(***************************************************************************)
C18_OnlyMainLoopMutates == [][(Flags' # Flags \/ FilterRecomputed) => Dispatch]_vars

\* The sources the configuration in the file enables, and those of them
\* whose schema the desktop lets the import open and read.
EnabledSources ==
    { x \in Sources : config_get(config_get(disk, "import_sources", AllSources), x, TRUE) }

SoundSources == { x \in EnabledSources : system[x].status \in {"ok", "no_get_all"} }

\* The keys of the records of the sources in S, each source read alone.
RecordsOf(S) == UNION { dict_keys(read_records(<<>>, system[x].records)) : x \in S }

(***************************************************************************)
(* C19.  The map an import reads has all the records of every enabled      *)
(* source whose schema can be opened and read, and no record of an enabled *)
(* source whose schema cannot: a source that fails does not keep another   *)
(* from being read.                                                        *)
(***************************************************************************)
C19_SourcesIndependentStep ==
    (Construct /\ last_import' # <<>>) =>
        dict_keys(last_import'[1].system_shortcuts) = RecordsOf(SoundSources)

C19_SourcesFailIndependently == [][C19_SourcesIndependentStep]_vars

(***************************************************************************)
(* C20.  When an import fails, no enabled source having a schema that can  *)
(* be opened and read, every shortcut the configuration had imported       *)
(* before is still in the merged view of the configuration in memory.      *)
(***************************************************************************)
C20_FailedImportStep ==
    (Construct /\ last_import' # <<>> /\ EnabledSources # {} /\ SoundSources = {}) =>
        \A k \in dict_keys(last_import'[1].old_imported) :
            dict_has(get_all_shortcuts(config'), k)

C20_FailedImportKeepsImported == [][C20_FailedImportStep]_vars

(***************************************************************************)
(* C21.  A press or a release of a key that is none of the modifier keys   *)
(* leaves the helper as it was: the four flags, the popup and the queue of *)
(* callbacks are unchanged, and the handler returns.                       *)
(***************************************************************************)
OtherKeys == Keys \ ModifierKeys

C21_OtherKeysIgnored ==
    listener =>
        \A key \in OtherKeys :
            /\ on_press(Self, key) = Self
            /\ on_release(Self, key) = Self

\* A key that is no modifier is pressed while ctrl is held, the popup is
\* shown and a callback is queued.
C21_Witness ==
    /\ listener
    /\ OtherKeys # {}
    /\ ctrl_pressed
    /\ idle # <<>>
    /\ popup[1].window = "shown"
    /\ \A key \in OtherKeys : on_press(Self, key) = Self

(***************************************************************************)
(* C22.  After any sequence of show with or without timeout, hide and      *)
(* expiry of the timer, at most one hide timer is pending, timeout_id is   *)
(* set exactly when one is pending and is its id, and the pending timer is *)
(* the one of the most recent show with timeout; a show without timeout    *)
(* leaves no timer pending and a show with timeout leaves its own alone.   *)
(***************************************************************************)
C22_LastRequestWins ==
    /\ Cardinality(timer.pending) <= 1
    /\ timer.pending = (IF timer.timeout_id = <<>> THEN {} ELSE {timer.timeout_id[1]})
    /\ timer.pending \subseteq {timer.last}
    /\ popup # <<>> => popup[1].timeout_id = (timer.timeout_id # <<>>)
    /\ show_timeout(timer, FALSE).pending = {}
    /\ show_timeout(timer, FALSE).timeout_id = <<>>
    /\ show_timeout(timer, TRUE).pending = {timer.last + 1}
    /\ hide_timeout(timer).pending = {}

\* The popup was shown with timeout twice: the timer of the second show is
\* pending, the one of the first is not.
C22_Witness ==
    /\ timer.last = 2
    /\ timer.pending = {2}
    /\ timer.timeout_id = <<2>>
    /\ popup[1].window = "shown"

\* A timer has expired and hidden the popup, and none is pending.
C22_WitnessExpired ==
    /\ timer.last = 1
    /\ timer.pending = {}
    /\ timer.timeout_id = <<>>
    /\ popup[1].window = "hidden"

(***************************************************************************)
(* C23.  Once every enqueued callback has run, a visible overlay displays  *)
(* the filter of the four flags as they are now: the last filter call had  *)
(* the current modifier state, and the result and the label are those of   *)
(* filter_shortcuts for it.                                                *)
(***************************************************************************)
C23_DisplayFollowsFlags ==
    (listener /\ idle = <<>> /\ Visible) =>
        /\ Filtered
        /\ FilterKeys = pressed_keys_of(Self)
        /\ popup[1].filtered_shortcuts =
              filtered_for(popup[1].shortcuts, pressed_keys_of(Self),
                           config_get(config, "key_aliases", <<>>))
        /\ popup[1].title_label = title_markup(pressed_keys_of(Self))

\* Ctrl and shift are held, the callbacks have run, and the visible overlay
\* displays the shortcuts of ctrl with shift, which are not all of them.
C23_Witness ==
    /\ listener
    /\ idle = <<>>
    /\ Visible
    /\ ctrl_pressed /\ shift_pressed /\ ~super_pressed /\ ~alt_pressed
    /\ popup[1].title_label = "<b>Available Shortcuts (CTRL + SHIFT + ...)</b>"
    /\ popup[1].filtered_shortcuts # <<>>
    /\ popup[1].filtered_shortcuts # popup[1].shortcuts

(***************************************************************************)
(* C24.  After an import that wrote the configuration file and whose write *)
(* succeeded, at construction or with --import-only, the imported          *)
(* shortcuts of the file are the map the import read, key by key and       *)
(* description by description, and those of the configuration in memory    *)
(* where a helper was constructed, whatever the file had before.           *)
(***************************************************************************)
Saved == Imported /\ last_import[1].saved = "ok"

C24_WitnessImportOnly ==
    /\ Saved
    /\ config = <<>>
    /\ OldImported = SystemShortcuts
    /\ SystemShortcuts # <<>>

\* An import read the keys the file had under other descriptions: no write
\* is made, and the file keeps the descriptions it had.
C24_WitnessNotSaved ==
    /\ Imported
    /\ last_import[1].saved = "none"
    /\ config # <<>>
    /\ ImportedOf(config) = SystemShortcuts
    /\ ImportedOf(disk) # SystemShortcuts

\* The tags of b that are no tag of the Control class, of the Super class,
\* Shift or Alt, in the order they are written.
OtherTags(b) ==
    LET is_other(match) ==
            lower(match) \notin {"control", "ctrl", "primary", "super", "mod4", "mod5",
                                 "shift", "alt"}
    IN SelectSeq(findall_tags(b, 1), is_other)

\* What b has after its last '>', all of b when it has none.
RECURSIVE trailing_text(_)
trailing_text(b) ==
    IF \E i \in 1..Len(b) : CharAt(b, i) = ">"
    THEN trailing_text(SubSeq(b, 1 + (CHOOSE i \in 1..Len(b) : CharAt(b, i) = ">"), Len(b)))
    ELSE b

(***************************************************************************)
(* C25.  As claimed: when the binding has tags that are no modifier tags,  *)
(* the final key of the result is the content of the first of them; when   *)
(* it has none, the final key is the text after the tags.                  *)
(***************************************************************************)
C25_FirstOtherTagIsKey ==
    (Parsed /\ binding \notin {"", "[]"}) =>
        /\ OtherTags(binding) # <<>> =>
              /\ Result # <<>>
              /\ last_token(Result[1]) = last_token(normalize_key(OtherTags(binding)[1]))
        /\ (OtherTags(binding) = <<>> /\ Result # <<>>) =>
              last_token(Result[1]) =
                  last_token(normalize_key(strip(remove_char(trailing_text(binding), "+"))))

\* Final keys as written and the names they are to have: names of the
\* table in several letter cases, single characters, and tokens the table
\* does not have.
CanonicalNames ==
    { <<"Return", "Enter">>, <<"ESCAPE", "Esc">>, <<"Page_Down", "PageDown">>,
      <<"Left", "Left">>, <<"F5", "F5">>, <<"c", "C">>, <<"x", "X">>,
      <<"bracketLeft", "Bracketleft">>, <<"Hyper", "Hyper">>, <<"Meta", "Meta">>,
      <<"[]", "[]">> }

C26_WitnessToken ==
    /\ Parsed
    /\ binding = "<Control><Shift>bracketLeft"
    /\ Result = <<"Shift+Bracketleft">>

\* The modifiers the tags of b name, as the dict of the held keys.
HeldFor(b) ==
    [ctrl |-> TagsOf(b).has_control, super |-> TagsOf(b).has_super,
     alt |-> HasModifier(b, "Alt"), shift |-> HasModifier(b, "Shift")]

(***************************************************************************)
(* C27.  As claimed: a binding the import takes (it names Control or       *)
(* Super), whose tags are modifier tags only, is parsed to a key that      *)
(* filter_shortcuts selects from the imported shortcuts when exactly the   *)
(* modifiers of its tags are held; the key of '<Control>c' is listed while *)
(* Ctrl alone is held.                                                     *)
(***************************************************************************)
C27_ImportedKeySelected ==
    (Parsed /\ Result # <<>> /\ has_ctrl_or_super(binding) /\ OtherTags(binding) = <<>>) =>
        dict_has(filtered_for(<< <<Result[1], "Description">> >>, HeldFor(binding), <<>>),
                 Result[1])

(***************************************************************************)
(* C28.  As claimed: in every state, callbacks pending or not, a visible   *)
(* overlay has one of ctrl, super and alt held.                            *)
(***************************************************************************)
C28_VisibleOnlyWhileHeld == Visible => QualifyingHeld

HidePending == \E i \in 1..Len(idle) : idle[i].fn = "hide_popup"

(***************************************************************************)
(* C28, amended.  In every state, callbacks pending or not, a visible      *)
(* overlay has one of ctrl, super and alt held, or a hide_popup callback   *)
(* is in the queue.                                                        *)
(***************************************************************************)
C28_VisibleHeldOrHiding == Visible => (QualifyingHeld \/ HidePending)

\* Ctrl was released with the overlay shown, and the main loop has not run
\* hide_popup yet.
C28_Witness ==
    /\ Visible
    /\ ~QualifyingHeld
    /\ idle = <<HideEntry>>

(***************************************************************************)
(* C29.  As claimed: the four flag values a callback passes to             *)
(* filter_shortcuts are values the four flags have had together at some    *)
(* instant, however the listener's writes fall between the callback's      *)
(* reads.                                                                  *)
(***************************************************************************)
C29_ConsistentSnapshot ==
    Filtered =>
        <<FilterKeys.ctrl, FilterKeys.super, FilterKeys.alt, FilterKeys.shift>> \in reader.seen

(***************************************************************************)
(* C30.  As claimed: every key of the merged view that is a key of the     *)
(* filter result has, in the result, the description the merged view gives *)
(* it, whatever the alias table, one whose alias is a key of the merged    *)
(* view included.                                                          *)
(***************************************************************************)
C30_RealEntriesKept ==
    Filtered =>
        \A k \in dict_keys(popup[1].shortcuts) :
            dict_has(popup[1].filtered_shortcuts, k) =>
                dict_get(popup[1].filtered_shortcuts, k) = dict_get(popup[1].shortcuts, k)

====
